---- MODULE Spec2Model ----
(***************************************************************************)
(* Photo-map build scripts: coordinate resolution per listed image, the    *)
(* gazetteer filename guess, thumbnail/link materialisation and the        *)
(* GeoJSON feature list.  Four script variants share the structure         *)
(*   listing -> per-record loop -> whole-file write                        *)
(* and are modelled side by side:                                          *)
(*   "gaz"     src/build.mjs 1-454 (also 456-848 and                       *)
(*             src/build-locations.mjs 80-393): media_info, gazetteer,     *)
(*             optional forward Nominatim, thumbnails A then B             *)
(*   "exif"    src/build.mjs 850-1043: media_info, EXIF, overrides,        *)
(*             optional forward geocode, per-file shared link              *)
(*   "refresh" src/build.mjs 1051-1717: media_info, gazetteer, optional    *)
(*             reverse geocode, thumbnails                                 *)
(*   "jimp"    src/unnamed/part_000: media_info, bytes, EXIF, overrides,   *)
(*             optional forward geocode, local thumbnail                   *)
(*                                                                         *)
(* Strings are sequences of one-character strings.  The precomposed        *)
(* letters with diacritics are written as two-symbol tokens, each standing *)
(* for ONE character: "a~" a-breve, "a^" a-circumflex, "t," t-comma,       *)
(* "S," capital S-comma.  Decimal degrees are integers scaled by 10^4.     *)
(***************************************************************************)
EXTENDS Integers, Sequences, FiniteSets, TLC

\* JavaScript values.  A number-valued slot (latitude, longitude) holds an
\* integer; three integers outside the range of any coordinate stand for
\* null/undefined, for NaN, and for a value that is not of type number.
\* A string-valued slot holds a string, NONE standing for null/undefined.
\* A null array is the empty tuple.
NULL == -1000
NaN == -1001
TEXT == -1002
NONE == "null"

-----------------------------------------------------------------------------
(* Strings *)

\* String.prototype.toLowerCase on one character
ToLower(c) ==
  CASE c = "B" -> "b"
    [] c = "C" -> "c"
    [] c = "J" -> "j"
    [] c = "P" -> "p"
    [] c = "G" -> "g"
    [] c = "S," -> "s,"
    [] OTHER -> c

\* normalize("NFD") followed by removal of U+0300..U+036F on one character:
\* the base letter of a precomposed letter, every other character unchanged
StripMarks(c) ==
  CASE c = "a~" -> "a"
    [] c = "a^" -> "a"
    [] c = "t," -> "t"
    [] c = "s," -> "s"
    [] OTHER -> c

normChar(c) == StripMarks(ToLower(c))

\* norm = s => (s||"").toLowerCase().normalize("NFD").replace(/[\u0300-\u036f]/g,"")
norm(s) == [i \in 1..Len(s) |-> normChar(s[i])]

\* String.prototype.includes
Includes(t, k) ==
  \E i \in 0..(Len(t) - Len(k)) : SubSeq(t, i + 1, i + Len(k)) = k

\* Object GAZ: keys in insertion order, values [lon, lat]
GAZ ==
  << [key |-> <<"b", "r", "e", "b">>,
      lon |-> 239049, lat |-> 477485],
     [key |-> <<"b", "a", "r", "s", "a", "n", "a">>,
      lon |-> 240425, lat |-> 477367],
     [key |-> <<"b", "e", "t", "h", "l", "e", "n", " ", "c", "r", "i", "s">>,
      lon |-> 246710, lat |-> 461932],
     [key |-> <<"c", "r", "i", "s">>,
      lon |-> 246710, lat |-> 461932],
     [key |-> <<"b", "r", "a", "t", "e", "i", "u">>,
      lon |-> 243826, lat |-> 461491],
     [key |-> <<"b", "i", "s", "t", "r", "i", "t", "a">>,
      lon |-> 245000, lat |-> 471330],
     [key |-> <<"b", "n", "r">>,
      lon |-> 260986, lat |-> 444305],
     [key |-> <<"a", "t", "e", "n", "e", "u">>,
      lon |-> 260980, lat |-> 444412],
     [key |-> <<"c", "h", "e", "i", "l", "e", " ", "b", "i", "c", "a", "z", "u", "l", "u", "i">>,
      lon |-> 258241, lat |-> 468121],
     [key |-> <<"b", "i", "c", "a", "z">>,
      lon |-> 260901, lat |-> 469133],
     [key |-> <<"b", "i", "g", "a", "r">>,
      lon |-> 223514, lat |-> 450039],
     [key |-> <<"p", "r", "a", "i", "d">>,
      lon |-> 251358, lat |-> 465534],
     [key |-> <<"s", "a", "s", "c", "a">>,
      lon |-> 217577, lat |-> 448803],
     [key |-> <<"s", "u", "c", "e", "v", "i", "t", "a">>,
      lon |-> 257206, lat |-> 477814],
     [key |-> <<"s", "a", "p", "a", "n", "t", "a">>,
      lon |-> 236932, lat |-> 479682],
     [key |-> <<"v", "i", "s", "c", "r", "i">>,
      lon |-> 250918, lat |-> 460558],
     [key |-> <<"t", "i", "h", "u", "t", "a">>,
      lon |-> 248058, lat |-> 473147],
     [key |-> <<"b", "a", "z", "i", "a", "s">>,
      lon |-> 214300, lat |-> 447840],
     [key |-> <<"v", "o", "d", "i", "t", "a">>,
      lon |-> 224160, lat |-> 446730],
     [key |-> <<"z", "i", "m", "b", "r", "i", " ", "h", "a", "t", "e", "g">>,
      lon |-> 229538, lat |-> 456117],
     [key |-> <<"v", "a", "n", "a", "t", "o", "r", "i", " ", "n", "e", "a", "m", "t">>,
      lon |-> 262340, lat |-> 472190],
     [key |-> <<"l", "a", "z", "a", "r", "e", "a">>,
      lon |-> 255169, lat |-> 467770],
     [key |-> <<"e", "n", "i", "s", "a", "l", "a">>,
      lon |-> 288382, lat |-> 448864],
     [key |-> <<"f", "e", "l", "d", "i", "o", "a", "r", "a">>,
      lon |-> 255862, lat |-> 458282],
     [key |-> <<"p", "o", "i", "e", "n", "i", "l", "e", " ", "i", "z", "e", "i">>,
      lon |-> 241160, lat |-> 476940],
     [key |-> <<"o", "r", "a", "v", "i", "t", "a">>,
      lon |-> 216911, lat |-> 450391],
     [key |-> <<"a", "n", "i", "n", "a">>,
      lon |-> 218583, lat |-> 450839],
     [key |-> <<"c", "a", "p", "i", "d", "a", "v", "a">>,
      lon |-> 280800, lat |-> 445100],
     [key |-> <<"c", "e", "r", "n", "a", "v", "o", "d", "a">>,
      lon |-> 280333, lat |-> 443333],
     [key |-> <<"h", "a", "r", "s", "o", "v", "a">>,
      lon |-> 279533, lat |-> 446833],
     [key |-> <<"r", "a", "s", "o", "v", "a">>,
      lon |-> 279344, lat |-> 442458],
     [key |-> <<"s", "e", "i", "m", "e", "n", "i">>,
      lon |-> 280713, lat |-> 443932],
     [key |-> <<"i", "z", "v", "o", "a", "r", "e", "l", "e">>,
      lon |-> 281650, lat |-> 443920],
     [key |-> <<"t", "o", "p", "a", "l", "u">>,
      lon |-> 280110, lat |-> 445310],
     [key |-> <<"o", "g", "r", "a">>,
      lon |-> 242890, lat |-> 464640],
     [key |-> <<"h", "a", "l", "l", "e", "r">>,
      lon |-> 242890, lat |-> 464640],
     [key |-> <<"d", "u", "p", "u", "s">>,
      lon |-> 242164, lat |-> 462178] >>

\* const guessFromFilename = (name="") => { ... }: the keys that occur in the
\* normalized name, stably sorted by decreasing length; the first one's value
RECURSIVE InsertByLength(_, _)
InsertByLength(sorted, k) ==
  IF sorted = <<>> THEN <<k>>
  ELSE IF Len(Head(sorted).key) - Len(k.key) >= 0
       THEN <<Head(sorted)>> \o InsertByLength(Tail(sorted), k)
       ELSE <<k>> \o sorted

\* the matching keys left in insertion order
SortByLength_omitted(keys) == keys

RECURSIVE SortByLength(_)
SortByLength(keys) ==
  IF keys = <<>> THEN <<>>
  ELSE InsertByLength(SortByLength(SubSeq(keys, 1, Len(keys) - 1)),
                      keys[Len(keys)])

\* n.replace(/\.[^.]+$/, ""): drop a final "." followed by one or more non-dots
RECURSIVE LastDot(_, _)
LastDot(s, i) ==
  IF i = 0 THEN 0 ELSE IF s[i] = "." THEN i ELSE LastDot(s, i - 1)

StripExt(s) ==
  LET d == LastDot(s, Len(s))
  IN IF d > 0 /\ d < Len(s) THEN SubSeq(s, 1, d - 1) ELSE s

IsSep(c) == c \in {"_", "-", "."}

\* .replace(/[_\-.]+/g, " "): every maximal run of separators becomes one space
RECURSIVE CollapseSeps(_)
CollapseSeps(s) ==
  IF s = <<>> THEN <<>>
  ELSE IF IsSep(Head(s))
       THEN IF Len(s) > 1 /\ IsSep(s[2])
            THEN CollapseSeps(Tail(s))
            ELSE <<" ">> \o CollapseSeps(Tail(s))
       ELSE <<Head(s)>> \o CollapseSeps(Tail(s))

\* String.prototype.trim (the only white space of the alphabet is " ")
RECURSIVE TrimLeft(_)
TrimLeft(s) == IF s # <<>> /\ Head(s) = " " THEN TrimLeft(Tail(s)) ELSE s

RECURSIVE TrimRight(_)
TrimRight(s) ==
  IF s # <<>> /\ s[Len(s)] = " "
  THEN TrimRight(SubSeq(s, 1, Len(s) - 1)) ELSE s

Trim(s) == TrimRight(TrimLeft(s))

\* function baseNameNoExt(n = ""): the forward geocoder's query text
baseNameNoExt(n) == Trim(CollapseSeps(StripExt(n)))

\* function safeFileName(n = ""): lower case, every run of characters outside
\* [a-z0-9._-] becomes "-", leading and trailing "-" removed
IsSafeChar(c) ==
  c \in {"a", "b", "c", "d", "e", "f", "g", "h", "i", "j", "k", "l", "m",
         "n", "o", "p", "q", "r", "s", "t", "u", "v", "w", "x", "y", "z",
         "0", "1", "2", "3", "4", "5", "6", "7", "8", "9", ".", "_", "-"}

RECURSIVE DashRuns(_)
DashRuns(s) ==
  IF s = <<>> THEN <<>>
  ELSE IF ~IsSafeChar(Head(s))
       THEN IF Len(s) > 1 /\ ~IsSafeChar(s[2])
            THEN DashRuns(Tail(s))
            ELSE <<"-">> \o DashRuns(Tail(s))
       ELSE <<Head(s)>> \o DashRuns(Tail(s))

RECURSIVE StripDashLeft(_)
StripDashLeft(s) ==
  IF s # <<>> /\ Head(s) = "-" THEN StripDashLeft(Tail(s)) ELSE s

RECURSIVE StripDashRight(_)
StripDashRight(s) ==
  IF s # <<>> /\ s[Len(s)] = "-"
  THEN StripDashRight(SubSeq(s, 1, Len(s) - 1)) ELSE s

safeFileName(n) ==
  StripDashRight(StripDashLeft(DashRuns([i \in 1..Len(n) |-> ToLower(n[i])])))

\* Object.keys(GAZ).filter(k => t.includes(k))
MatchingKeys(t) == SelectSeq(GAZ, LAMBDA e : Includes(t, e.key))

\* the lookup made on the name as baseNameNoExt cleans it
guessFromFilename_cleaned(name) ==
  LET t == norm(baseNameNoExt(name))
      keys == SortByLength(MatchingKeys(t))
  IN IF Len(keys) > 0 THEN <<keys[1].lon, keys[1].lat>> ELSE <<>>

\* the lookup that answers the centre of the country when no key matches
guessFromFilename_default(name) ==
  LET t == norm(name)
      keys == SortByLength(MatchingKeys(t))
  IN IF Len(keys) > 0 THEN <<keys[1].lon, keys[1].lat>> ELSE <<250000, 460000>>

\* const guessFromFilename = (name="") => { ... }: [lon, lat] of the longest
\* key the normalised name includes, <<>> for null
guessFromFilename(name) ==
  LET t == norm(name)
      keys == SortByLength(MatchingKeys(t))
  IN IF Len(keys) > 0 THEN <<keys[1].lon, keys[1].lat>> ELSE <<>>

-----------------------------------------------------------------------------
(* Bounds and input domains *)


\* records listed in one run, and runs of the script over the same site/
MaxEntries == 2
\* runs over the same site/ directory, and records listed in each of them
MaxRuns == 2
RerunEntries == 1
\* words per generated file name in the filename-guess specification
MaxWords == 2

Variants == {"gaz", "exif", "refresh", "jimp"}

Ext_jpg == <<".", "j", "p", "g">>
Name_cheile_bicazului ==
  <<"c", "h", "e", "i", "l", "e", " ",
    "b", "i", "c", "a", "z", "u", "l", "u", "i">> \o Ext_jpg
Name_img == <<"i", "m", "g", "_", "1">> \o Ext_jpg

\* the listed files: name is the entry's name, path its path_lower and
\* path_display (one string stands for both)
Files ==
  {[name |-> Name_cheile_bicazului, path |-> "/a/cheile bicazului.jpg"],
   [name |-> Name_img, path |-> "/a/img_1.jpg"],
   [name |-> Name_img, path |-> "/b/img_1.jpg"]}
Paths == {e.path : e \in Files}

\* media_info.metadata of an entry: whether it has a location, then
\* location.latitude, location.longitude (each possibly missing) and time_taken
MediaValues ==
  {[loc |-> FALSE, lat |-> NULL, lon |-> NULL, time |-> NONE],
   [loc |-> TRUE, lat |-> 11, lon |-> 12, time |-> "T1"],
   [loc |-> TRUE, lat |-> 11, lon |-> NULL, time |-> NONE]}

\* what exiftool.read does with the bytes: it rejects, or yields GPSLatitude,
\* GPSLongitude and the first of DateTimeOriginal/CreateDate/ModifyDate
ExifValues ==
  {[st |-> "throw", lat |-> NULL, lon |-> NULL, when |-> NONE],
   [st |-> "ok", lat |-> NULL, lon |-> NULL, when |-> "T2"],
   [st |-> "ok", lat |-> 31, lon |-> 32, when |-> "T2"],
   [st |-> "ok", lat |-> 31, lon |-> 32, when |-> NONE]}

\* an entry of overrides.json: absent, numeric lat/lon, or non-numeric values
OverrideValues ==
  {[has |-> FALSE, lat |-> NULL, lon |-> NULL],
   [has |-> TRUE, lat |-> 21, lon |-> 22],
   [has |-> TRUE, lat |-> TEXT, lon |-> TEXT]}

\* the forward geocoder's HTTP exchange: fetch rejects, non-2xx status, empty
\* array, or a first result with its lat and lon fields (text of a number
\* stands as that number, TEXT for text parseFloat cannot read)
GeoValues ==
  {[st |-> "throw", lat |-> NULL, lon |-> NULL],
   [st |-> "notok", lat |-> NULL, lon |-> NULL],
   [st |-> "empty", lat |-> NULL, lon |-> NULL],
   [st |-> "ok", lat |-> 41, lon |-> 42],
   [st |-> "ok", lat |-> TEXT, lon |-> TEXT]}

\* the same sources holding positions with a zero latitude or longitude
MediaAtZero ==
  {[loc |-> FALSE, lat |-> NULL, lon |-> NULL, time |-> NONE],
   [loc |-> TRUE, lat |-> 0, lon |-> 12, time |-> "T1"]}
ExifAtZero ==
  {[st |-> "ok", lat |-> NULL, lon |-> NULL, when |-> "T2"],
   [st |-> "ok", lat |-> 0, lon |-> 32, when |-> "T2"]}
OverrideAtZero ==
  {[has |-> FALSE, lat |-> NULL, lon |-> NULL],
   [has |-> TRUE, lat |-> 21, lon |-> 0]}
GeoAtZero ==
  {[st |-> "empty", lat |-> NULL, lon |-> NULL],
   [st |-> "ok", lat |-> 0, lon |-> 42]}

\* the reverse geocoder's exchange: fetch rejects, non-2xx, unparsable body,
\* or an address
ReverseValues == {"throw", "notok", "badjson", "place"}

\* a request, with what is done with its answer inside the same try block:
\* it succeeds, or it is rejected / answers not-ok / the write throws
CallValues == {"ok", "fail"}

\* not consulted while the record was processed
NA == "n/a"

\* typeof v === "number"
IsNumber(v) == v # NULL /\ v # TEXT

\* parseFloat of a response field
parseFloat(s) == IF s = TEXT \/ s = NULL THEN NaN ELSE s

\* crypto md5 hex digest: a fixed injective image of its argument
md5(s) == "md5(" \o s \o ")"

\* the id of the entry at a path
IdOf(p) == "id:" \o p

-----------------------------------------------------------------------------
(* State *)

VARIABLES
  variant,       \* which script runs
  ENABLE_GEOCODE,\* ENABLE_NOMINATIM / ENABLE_FILENAME_GEOCODE === "1"
  DISABLE_EXIF,  \* DISABLE_EXIF === "1"
  overrides,     \* overrides.json as loaded: path_display -> entry
  overridesFile, \* overrides.json on disk: missing, unparsable, or a table
  atZero,        \* whether the sources hold positions on the equator or the
                 \* prime meridian
  hasIds,        \* whether the listing's entries carry an id
  run,           \* number of the current run of the script
  pc,            \* "loop": in the per-record loop, "done": outputs written,
                 \* "failed": ended by process.exit(1)
  listed,        \* path of every entry the loop has taken so far, in order
  features,      \* const features = []
  skipped,       \* let skipped = 0
  thumbs,        \* let thumbs = 0
  extLinks,      \* let extLinks = 0
  viaMedia,      \* let viaMedia = 0
  viaGuess,      \* let viaGuess = 0
  viaNom,        \* let viaNom = 0
  thumbFiles,    \* the thumbnail directory: file name and the entry it shows
  geoCache,      \* const geoCache = new Map()
  geocacheFile,  \* site/geocache.json on disk ({} while there is none)
  nomiKeys,      \* the keys reverse requests were sent for, over all
                 \* runs, in the order sent (an observer's record)
  output,        \* what this run wrote as FeatureCollection: <<>> before it does
  geoErrors,     \* geocoder requests rejected in this run (an observer's count)
  last,          \* the entry the loop took last: inputs, calls made, result
  env,           \* process.env: which of the credentials and the URL are set
  entries,       \* const entries = await listAll(...): <<>> before the listing
  listRequests,  \* folder-listing requests sent in this run
  dirsMade,      \* whether this run has created an output directory (fs.mkdir)
  nomi,          \* requests sent to Nominatim in this run, and the time
                 \* between each two consecutive ones (an observer's record)
  gpc, gName, gGuess, gQuery, \* the filename-guess specification
  cpc,           \* the content-table specification: its position
  contentFile,   \* content.json on disk
  cName,         \* f.name of the record
  cTable,        \* const overrides = await loadOverrides(): byName, patterns
  cOut,          \* cuprinsTitle and cuprinsDesc of the record
  tpc,           \* the folder-enumeration specification: its position
  tree,          \* the shared folder: the entries present and the page size
  queue,         \* const queue = [""]
  files,         \* const files = []
  data,          \* the folder being read and the pages of it already read
  treeRequests   \* requests sent by the enumeration

pipeVars ==
  <<variant, ENABLE_GEOCODE, DISABLE_EXIF, overrides, overridesFile, atZero,
    hasIds,
    run, pc, listed, features, skipped, thumbs, extLinks, viaMedia, viaGuess, viaNom,
    thumbFiles, geoCache, geocacheFile, nomiKeys, output, geoErrors, last,
    env, entries,
    listRequests, dirsMade, nomi>>
guessVars == <<gpc, gName, gGuess, gQuery>>
contentVars == <<cpc, contentFile, cName, cTable, cOut>>
treeVars == <<tpc, tree, queue, files, data, treeRequests>>
sideVars == <<guessVars, contentVars, treeVars>>
vars == <<pipeVars, sideVars>>

\* what the sources may hold in this run
Medias == IF atZero THEN MediaAtZero ELSE MediaValues
Exifs == IF atZero THEN ExifAtZero ELSE ExifValues
OverrideEntries == IF atZero THEN OverrideAtZero ELSE OverrideValues
Geos == IF atZero THEN GeoAtZero ELSE GeoValues

\* the specifications of single functions are not running
GuessOff == gpc = "off" /\ gName = <<>> /\ gGuess = <<>> /\ gQuery = <<>>
ContentOff ==
  /\ cpc = "off" /\ contentFile = <<>> /\ cName = <<>>
  /\ cTable = <<>> /\ cOut = <<>>
TreeOff ==
  /\ tpc = "off" /\ tree = <<>> /\ queue = <<>> /\ files = <<>>
  /\ data = <<>> /\ treeRequests = 0

GeoNA == [st |-> NA, lat |-> NULL, lon |-> NULL]
ExifNA == [st |-> NA, lat |-> NULL, lon |-> NULL, when |-> NONE]
OverrideNone == [has |-> FALSE, lat |-> NULL, lon |-> NULL]

\* the outcomes as consumed: a call that was not made has outcome NA
NoCalls ==
  [geo |-> GeoNA, reverse |-> NA, link |-> NA, bytes |-> NA, exif |-> ExifNA,
   thumbA |-> NA, thumbB |-> NA, jimp |-> NA]

\* an entry of the listing at path p
Entry(file, media) ==
  [name |-> file.name, path |-> file.path,
   id |-> IF hasIds THEN IdOf(file.path) ELSE NONE, media |-> media]

-----------------------------------------------------------------------------
(* The body of "for (const f of entries)" is modelled statement by         *)
(* statement.  Each step takes the locals of the body as a record p (lat,  *)
(* lon, when, source, the links, the thumbnail) and the outcome of the     *)
(* external call the statement awaits, and returns the locals after the    *)
(* statement.  p.skip records "skipped++; continue", p.threw the call      *)
(* whose exception left the try block of the body (NONE when none did);    *)
(* after either, the remaining statements do nothing.  p.calls and p.used  *)
(* record the calls made for the entry and their outcomes.                 *)

Calls ==
  {"geocode", "reverse", "link", "bytes", "exif", "thumbA", "thumbB", "jimp"}

\* the gazetteer script with the links request outside its try/catch
GazCaught_sansLink == {"geocode", "thumbA", "thumbB"}

\* the refresh script with the reverse lookup in a try/catch of its own
RefreshCaught_withReverse == {"link", "thumbA", "thumbB", "reverse"}

\* the calls each script wraps in a try/catch of their own (or whose
\* function catches internally): their failure does not leave the body
GazCaught == {"geocode", "link", "thumbA", "thumbB"}
RefreshCaught == {"link", "thumbA", "thumbB"}
ExifCaught == {"exif"}
JimpCaught == {"exif"}

\* the loop's try block entered only after the geocoder calls
LoopCaught_sansGeocoder ==
  {"link", "bytes", "exif", "thumbA", "thumbB", "jimp"}

\* the loop body without a try/catch around it
LoopCaught_none == {}

\* the calls inside the try { ... } catch { skipped++ } of the loop: all
LoopCaught == Calls

\* the fallbacks tried without looking at lat and lon
missing_unguarded(lat, lon) == TRUE

\* lat == null || lon == null
missing(lat, lon) == lat = NULL \/ lon = NULL

\* the pair written latitude first
pointOf_swapped(lon, lat) == <<lat, lon>>

\* geometry: { type: "Point", coordinates: [lon, lat] }
pointOf(lon, lat) == <<lon, lat>>

\* the outcomes an awaited call may have when the body makes it, and the one
\* value na when it does not
Outcomes(made, S, na) == IF made THEN S ELSE {na}

\* let lat = null, lon = null, when = null (source = null), then the
\* "if (media?.location)" block
MediaStep(f) ==
  [lat |-> IF f.media.loc THEN f.media.lat ELSE NULL,
   lon |-> IF f.media.loc THEN f.media.lon ELSE NULL,
   when |-> IF f.media.loc THEN f.media.time ELSE NONE,
   source |-> NONE, place |-> NONE,
   skip |-> FALSE, threw |-> NONE, calls |-> {}, used |-> NoCalls,
   cache |-> geoCache, order |-> <<"media_info">>, elapsed |-> 0,
   pageUrl |-> NONE, rawUrl |-> NONE, thumbRel |-> NONE,
   thumbExternal |-> NONE, written |-> {},
   dMedia |-> 0, dGuess |-> 0, dNom |-> 0, dGeoErr |-> 0,
   dThumbs |-> 0, dExt |-> 0]

\* the body is still running: no continue, no exception
Running(p) == p.threw = NONE /\ ~p.skip

\* the call failed: nothing more when a try/catch around it (caught) takes
\* the exception, else the exception leaves the body
Raise(p, call, caught) ==
  IF call \in caught THEN p ELSE [p EXCEPT !.threw = call]

Made(p, call) ==
  [p EXCEPT !.calls = @ \cup {call}, !.order = Append(@, call)]

\* the tag set whenever media_info has a location, complete or not
MediaTag_always(p) == [p EXCEPT !.dMedia = 1, !.source = "media_info"]

\* if (lat!=null && lon!=null) { viaMedia++; source="media_info"; }
MediaTag(p) ==
  IF p.lat # NULL /\ p.lon # NULL
  THEN [p EXCEPT !.dMedia = 1, !.source = "media_info"]
  ELSE p

\* if (g){ [lon,lat]=g; viaGuess++; source = source || "filename"; }
FilenameApply(p, g) ==
  IF g # <<>>
  THEN [p EXCEPT !.lon = g[1], !.lat = g[2], !.dGuess = 1,
                 !.source = IF @ = NONE THEN "filename" ELSE @]
  ELSE p

\* if (lat==null || lon==null) { const g = guessFromFilename(f.name); ... }
FilenameStep(f, p) ==
  IF Running(p) /\ missing(p.lat, p.lon)
  THEN FilenameApply(Made(p, "guessFromFilename"), guessFromFilename(f.name))
  ELSE p

\* the geocoder asked whether or not a coordinate is missing
Geocodes_always(p) == Running(p) /\ ENABLE_GEOCODE

\* the geocoder asked whether or not the flag is set
Geocodes_flagless(p) == Running(p) /\ missing(p.lat, p.lon)

\* (lat==null || lon==null) && ENABLE_NOMINATIM / ENABLE_FILENAME_GEOCODE
Geocodes(p) == Running(p) /\ missing(p.lat, p.lon) /\ ENABLE_GEOCODE

\* the Nominatim block of the gazetteer script: fetch rejects (g.st "throw"),
\* or answers not-ok or [] (nothing), or a first result
NominatimApply(p, g) ==
  IF g.st = "throw" THEN Raise([p EXCEPT !.dGeoErr = 1], "geocode", GazCaught)
  ELSE IF g.st = "ok"
  THEN [p EXCEPT !.lon = parseFloat(g.lon), !.lat = parseFloat(g.lat),
                 !.dNom = 1, !.source = IF @ = NONE THEN "nominatim" ELSE @]
  ELSE p

NominatimStep(p, g) ==
  IF Geocodes(p)
  THEN NominatimApply([Made(p, "geocode") EXCEPT !.used.geo = g], g)
  ELSE p

\* if (lat==null || lon==null) { skipped++; continue; }
SkipStep(p) ==
  IF Running(p) /\ missing(p.lat, p.lon) THEN [p EXCEPT !.skip = TRUE] ELSE p

\* async function filePageAndRaw: the page URL and the raw URL of the entry,
\* both null when the request fails or returns no url
pageUrlOf(f, link) == IF link = "ok" THEN "page:" \o f.path ELSE NONE
rawUrlOf(f, link) == IF link = "ok" THEN "raw:" \o f.path ELSE NONE

\* the per-file link request l of the entry: filePageAndRaw,
\* ensureSharedLink, getPerFileSharedLink
LinkApply(f, p, l, caught) ==
  IF l = "ok"
  THEN [p EXCEPT !.pageUrl = pageUrlOf(f, l), !.rawUrl = rawUrlOf(f, l)]
  ELSE Raise(p, "link", caught)

LinkStep(f, p, l, caught) ==
  IF Running(p)
  THEN LinkApply(f, [Made(p, "link") EXCEPT !.used.link = l], l, caught)
  ELSE p

\* the thumbnail files strategy A and strategy B write
thumbNameA(f) == "t-" \o md5(f.path) \o ".jpg"
thumbNameB(f) == "t-" \o md5(f.id) \o ".jpg"

\* try { buf = await fetchThumb...; writeFile(name, buf); thumbRel =
\* "thumbs/" + name; thumbs++ } catch {}, with outcome a of the block
ThumbApply(p, call, a, name, path, caught) ==
  IF a = "ok"
  THEN [p EXCEPT !.thumbRel = "thumbs/" \o name,
                 !.written = {[file |-> name, of |-> path]}, !.dThumbs = 1]
  ELSE Raise(p, call, caught)

ThumbAStep(f, p, a, caught) ==
  IF Running(p)
  THEN ThumbApply([Made(p, "thumbA") EXCEPT !.used.thumbA = a],
                  "thumbA", a, thumbNameA(f), f.path, caught)
  ELSE p

\* the external link set for every record that has a raw URL
ExternalStep_unguarded(p) ==
  IF Running(p) /\ p.rawUrl # NONE
  THEN [p EXCEPT !.thumbExternal = p.rawUrl, !.dExt = 1]
  ELSE p

\* if (!thumbRel && rawUrl) { thumbExternal = rawUrl; extLinks++; }
ExternalStep(p) ==
  IF Running(p) /\ p.thumbRel = NONE /\ p.rawUrl # NONE
  THEN [p EXCEPT !.thumbExternal = p.rawUrl, !.dExt = 1]
  ELSE p

-----------------------------------------------------------------------------
(* The "gaz" script: src/build.mjs 352-454 *)

\* if (!thumbRel && f.id)
GazTriesB(f, p) == Running(p) /\ p.thumbRel = NONE /\ f.id # NONE

GazThumbB(f, p, b) ==
  IF GazTriesB(f, p)
  THEN ThumbApply([Made(p, "thumbB") EXCEPT !.used.thumbB = b],
                  "thumbB", b, thumbNameB(f), f.path, GazCaught)
  ELSE p

\* features.push({ type: "Feature", properties: {...}, geometry: {...} })
GazFeature(f, p) ==
  [of |-> f.path, geometry |-> pointOf(p.lon, p.lat),
   taken_at |-> p.when, source |-> p.source,
   original_page |-> p.pageUrl, thumb |-> p.thumbRel,
   thumb_external |-> p.thumbExternal, full_external |-> p.rawUrl]

-----------------------------------------------------------------------------
(* The "refresh" script: src/build.mjs 1579-1717 *)

\* const key = `${lat.toFixed(5)},${lng.toFixed(5)}` (coordinates here carry
\* four decimals, so rounding to five keeps them)
cacheKey(lat, lng) == <<lat, lng>>
\* a Map that holds null for a key answers has(key) with false
cacheHas_valued(cache, key) == \E e \in cache : e.key = key /\ e.val # NONE

\* geoCache.has(key)
cacheHas(cache, key) == \E e \in cache : e.key = key
cacheGet(cache, key) == (CHOOSE e \in cache : e.key = key).val
cacheSet(cache, key, val) ==
  {e \in cache : e.key # key} \cup {[key |-> key, val |-> val]}

\* const obj = JSON.parse(text); for (const k of Object.keys(obj))
\* geoCache.set(k, obj[k]): a missing or unreadable file leaves the Map as
\* it is (the catch {} around the load)
loadGeocache(cache, file) ==
  {e \in cache : \A x \in file : x.key # e.key} \cup file

\* cacheObj[k] = v for every entry of geoCache, written as JSON: null values
\* are written as null
saveGeocache(cache) == {[key |-> e.key, val |-> e.val] : e \in cache}

\* async function reverseGeocode(lat, lng): the cached value without a
\* request, else the request's outcome v, cached unless fetch rejects
reverseGeocode(cache, lat, lng, v) ==
  IF cacheHas(cache, cacheKey(lat, lng))
  THEN [requested |-> FALSE, failed |-> FALSE,
        info |-> cacheGet(cache, cacheKey(lat, lng)), cache |-> cache]
  ELSE IF ~ENABLE_GEOCODE
  THEN [requested |-> FALSE, failed |-> FALSE,
        info |-> NONE, cache |-> cacheSet(cache, cacheKey(lat, lng), NONE)]
  ELSE IF v = "throw"
  THEN [requested |-> TRUE, failed |-> TRUE, info |-> NONE, cache |-> cache]
  ELSE IF v = "notok" \/ v = "badjson"
  THEN [requested |-> TRUE, failed |-> FALSE,
        info |-> NONE, cache |-> cacheSet(cache, cacheKey(lat, lng), NONE)]
  ELSE [requested |-> TRUE, failed |-> FALSE,
        info |-> "place", cache |-> cacheSet(cache, cacheKey(lat, lng), "place")]

\* the reverse request is sent for the entry
ReverseRequests(p) ==
  Running(p) /\ ENABLE_GEOCODE /\ ~cacheHas(p.cache, cacheKey(p.lat, p.lon))

\* placeInfo = await reverseGeocode(lat, lon); if (placeInfo) viaNom++;
ReverseTake(p, rev) ==
  IF rev.failed
  THEN Raise([p EXCEPT !.dGeoErr = 1], "reverse", RefreshCaught)
  ELSE [p EXCEPT !.place = rev.info, !.cache = rev.cache,
                 !.dNom = IF rev.info # NONE THEN 1 ELSE 0]

ReverseApply(p, rev, v) ==
  IF rev.requested
  THEN ReverseTake([Made(p, "reverse") EXCEPT !.used.reverse = v], rev)
  ELSE ReverseTake(p, rev)

\* if (ENABLE_NOMINATIM) { placeInfo = await reverseGeocode(lat, lon); ... }
ReverseStep(p, v) ==
  IF Running(p) /\ ENABLE_GEOCODE
  THEN ReverseApply(Made(p, "reverseGeocode"),
                    reverseGeocode(p.cache, p.lat, p.lon, v), v)
  ELSE p

\* the thumbnail file of the second strategy: md5(f.id || f.path_lower)
thumbNameIdOrPath(f) ==
  "t-" \o md5(IF f.id # NONE THEN f.id ELSE f.path) \o ".jpg"

\* if (!thumbRel)
RefreshTriesB(p) == Running(p) /\ p.thumbRel = NONE

RefreshThumbB(f, p, b) ==
  IF RefreshTriesB(p)
  THEN ThumbApply([Made(p, "thumbB") EXCEPT !.used.thumbB = b],
                  "thumbB", b, thumbNameIdOrPath(f), f.path, RefreshCaught)
  ELSE p

RefreshFeature(f, p) ==
  [of |-> f.path, geometry |-> pointOf(p.lon, p.lat),
   taken_at |-> p.when, source |-> p.source,
   original_page |-> p.pageUrl, thumb |-> p.thumbRel,
   thumb_external |-> p.thumbExternal, full_external |-> p.rawUrl,
   place |-> p.place]

-----------------------------------------------------------------------------
(* The "exif" script, src/build.mjs 970-1043, and the "jimp" script,      *)
(* src/unnamed/part_000 131-222                                            *)

\* a JavaScript number used as a condition
Truthy(v) == v # NULL /\ v # NaN /\ v # 0

\* async function getExifGPS(buf): null (here st "null") when EXIF reading is
\* disabled, when exiftool rejects (the function's own try/catch, the "exif"
\* of ExifCaught and JimpCaught), or when a GPS tag is missing or falsy
getExifGPS(x) ==
  IF DISABLE_EXIF THEN [st |-> NONE, lat |-> NULL, lon |-> NULL, when |-> NONE]
  ELSE IF x.st = "ok" /\ Truthy(x.lat) /\ Truthy(x.lon)
  THEN [st |-> "gps", lat |-> x.lat, lon |-> x.lon, when |-> x.when]
  ELSE [st |-> NONE, lat |-> NULL, lon |-> NULL, when |-> NONE]

\* geocodeName throwing on every answer that is not a result
geocodeName_strict(g) ==
  IF g.st = "ok"
  THEN [st |-> "found", lat |-> parseFloat(g.lat), lon |-> parseFloat(g.lon)]
  ELSE [st |-> "throw", lat |-> NULL, lon |-> NULL]

\* async function geocodeName(q): it rejects when fetch does (st "throw"),
\* returns null (st "null") on a non-ok status or an empty array, else the
\* parsed lat/lon of the first result
geocodeName(g) ==
  IF g.st = "throw" THEN [st |-> "throw", lat |-> NULL, lon |-> NULL]
  ELSE IF g.st = "ok"
  THEN [st |-> "found", lat |-> parseFloat(g.lat), lon |-> parseFloat(g.lon)]
  ELSE [st |-> NONE, lat |-> NULL, lon |-> NULL]

\* const buf = await downloadViaSharedLink(...) / await fetchBytes(rawUrl),
\* with outcome b
BytesStep(p, b, caught) ==
  IF b = "ok"
  THEN [Made(p, "bytes") EXCEPT !.used.bytes = b]
  ELSE Raise([Made(p, "bytes") EXCEPT !.used.bytes = b], "bytes", caught)

\* the exif script downloads inside "if (lat == null || lon == null)"
ExifDownloads(p) == Running(p) /\ missing(p.lat, p.lon)

DownloadStep(p, b) == IF ExifDownloads(p) THEN BytesStep(p, b, ExifCaught) ELSE p

\* the jimp script downloads the bytes of every entry
FetchBytesStep(p, b) == IF Running(p) THEN BytesStep(p, b, JimpCaught) ELSE p

\* exiftool.read is called on the bytes
ReadsExif(p) == Running(p) /\ missing(p.lat, p.lon) /\ ~DISABLE_EXIF

\* exiftool.read(buf) with outcome x
ExifRead(p, x, caught) ==
  IF DISABLE_EXIF THEN p
  ELSE IF x.st = "throw"
  THEN Raise([Made(p, "exif") EXCEPT !.used.exif = x], "exif", caught)
  ELSE [Made(p, "exif") EXCEPT !.used.exif = x]

\* if (exif) { lat = exif.lat; lon = exif.lon; when = when || exif.when; }
ExifTake(p, exif) ==
  IF exif.st = "gps"
  THEN [p EXCEPT !.lat = exif.lat, !.lon = exif.lon,
                 !.when = IF @ = NONE THEN exif.when ELSE @]
  ELSE p

\* if (lat == null || lon == null) { const exif = await getExifGPS(buf); ... }
ExifStep(p, x, caught) ==
  IF Running(p) /\ missing(p.lat, p.lon)
  THEN ExifTake(ExifRead(p, x, caught), getExifGPS(x))
  ELSE p

\* the override used only to fill in a position still missing
OverrideStep_ifMissing(ov, p) ==
  IF Running(p) /\ ov.has /\ IsNumber(ov.lat) /\ IsNumber(ov.lon)
     /\ (p.lat = NULL \/ p.lon = NULL)
  THEN [p EXCEPT !.lat = ov.lat, !.lon = ov.lon,
                 !.order = Append(@, "override")]
  ELSE IF Running(p) THEN [p EXCEPT !.order = Append(@, "override")]
  ELSE p

\* the override taking the capture time away with the coordinates
OverrideStep_clearsWhen(ov, p) ==
  IF Running(p) /\ ov.has /\ IsNumber(ov.lat) /\ IsNumber(ov.lon)
  THEN [p EXCEPT !.lat = ov.lat, !.lon = ov.lon, !.when = NONE,
                 !.order = Append(@, "override")]
  ELSE IF Running(p) THEN [p EXCEPT !.order = Append(@, "override")]
  ELSE p

\* const ov = overrides[f.path_display]; if (ov && typeof ov.lat === "number"
\* && typeof ov.lon === "number") { lat = ov.lat; lon = ov.lon; }
OverrideStep(ov, p) ==
  IF Running(p) /\ ov.has /\ IsNumber(ov.lat) /\ IsNumber(ov.lon)
  THEN [p EXCEPT !.lat = ov.lat, !.lon = ov.lon,
                 !.order = Append(@, "override")]
  ELSE IF Running(p) THEN [p EXCEPT !.order = Append(@, "override")]
  ELSE p

\* if (guess) { lat = guess.lat; lon = guess.lon; }
GeocodeApply(p, guess, caught) ==
  IF guess.st = "throw"
  THEN Raise([p EXCEPT !.dGeoErr = 1], "geocode", caught)
  ELSE IF guess.st = "found"
  THEN [p EXCEPT !.lat = guess.lat, !.lon = guess.lon]
  ELSE p

\* if ((lat == null || lon == null) && ENABLE_FILENAME_GEOCODE) { const guess
\* = await geocodeName(baseNameNoExt(f.name)); ... }
GeocodeStep(p, g, caught) ==
  IF Geocodes(p)
  THEN GeocodeApply([Made(p, "geocode") EXCEPT !.used.geo = g],
                    geocodeName(g), caught)
  ELSE p

\* features.push of the exif script
ExifFeature(f, p) ==
  [of |-> f.path, geometry |-> pointOf(p.lon, p.lat),
   taken_at |-> p.when, dropbox_path |-> f.path, url |-> p.rawUrl]

\* const thumbName = safeFileName(f.name.replace(/\.[^.]+$/, "")) + ".jpg"
thumbNameJimp(f) == safeFileName(StripExt(f.name)) \o Ext_jpg

\* Jimp.read, resize, writeAsync with outcome j
JimpApply(f, p, j) ==
  IF j = "ok"
  THEN [p EXCEPT !.written = {[file |-> thumbNameJimp(f), of |-> f.path]}]
  ELSE Raise(p, "jimp", JimpCaught)

JimpStep(f, p, j) ==
  IF Running(p)
  THEN JimpApply(f, [Made(p, "jimp") EXCEPT !.used.jimp = j], j)
  ELSE p

\* features.push of the jimp script
JimpFeature(f, p) ==
  [of |-> f.path, geometry |-> pointOf(p.lon, p.lat),
   taken_at |-> p.when, dropbox_path |-> f.path,
   url |-> thumbNameJimp(f), original |-> p.rawUrl]

-----------------------------------------------------------------------------
(* The loop, the end of a run, and the next run *)

NoLast == [valid |-> FALSE]

\* const NOMI_THROTTLE = parseInt(process.env.NOMINATIM_THROTTLE_MS ||
\* "1100", 10), in ms
NOMI_THROTTLE == 1100

\* what the awaits between two consecutive Nominatim requests may take by
\* themselves, in ms: a few, or as many as the throttle
Elapsed == {10, NOMI_THROTTLE}

\* the Nominatim request the body sent, if any: search or reverse
Requests(p) == p.calls \cap {"geocode", "reverse"}

\* what the script sleeps right before its request: await
\* sleep(NOMI_THROTTLE) in reverseGeocode, nothing before a search request
sleptBefore(p) == IF "reverse" \in p.calls THEN NOMI_THROTTLE ELSE 0

\* the body took d ms up to its request, the sleep apart
Timed(p, d) == [p EXCEPT !.elapsed = d]

NoRequests == [requests |-> 0, gaps |-> {}]

\* the requests seen by Nominatim after the body: one more if the body sent
\* one, at elapsed + slept ms from the one before it
Observe(n, p) ==
  IF Requests(p) = {} THEN n
  ELSE [requests |-> n.requests + 1,
        gaps |-> IF n.requests > 0
                 THEN n.gaps \cup {p.elapsed + sleptBefore(p)} ELSE n.gaps]

\* the feature put in front of the collection
push_front(fs, feature) == <<feature>> \o fs

\* features.push(feature)
push(fs, feature) == Append(fs, feature)

\* the loop's catch without its skipped++
Skips_continueOnly(p) == p.skip

\* skipped++: of "{ skipped++; continue; }" and of the loop's catch
Skips(p) == p.skip \/ (p.threw # NONE /\ p.threw \in LoopCaught)

\* the loop left before the listing is exhausted
Exhausted_early == TRUE

\* for (const f of entries) has no entry left
Exhausted == Len(listed) = Len(entries)

\* what one pass leaves in the script's state, given the locals p at the end
\* of the body.  An exception that left the body is caught by the loop's
\* catch (skipped++); one that the loop did not catch ends the process.
Apply(f, ov, p, feature) ==
  /\ listed' = Append(listed, f.path)
  /\ features' = IF Running(p) THEN push(features, feature) ELSE features
  /\ skipped' = IF Skips(p) THEN skipped + 1 ELSE skipped
  /\ pc' = IF p.threw # NONE /\ p.threw \notin LoopCaught THEN "failed" ELSE pc
  /\ thumbs' = thumbs + p.dThumbs
  /\ extLinks' = extLinks + p.dExt
  /\ viaMedia' = viaMedia + p.dMedia
  /\ viaGuess' = viaGuess + p.dGuess
  /\ viaNom' = viaNom + p.dNom
  /\ geoErrors' = geoErrors + p.dGeoErr
  /\ thumbFiles' =
       {x \in thumbFiles : \A y \in p.written : y.file # x.file} \cup p.written
  /\ geoCache' = p.cache
  /\ nomiKeys' = IF "reverse" \in p.calls
                 THEN Append(nomiKeys, cacheKey(p.lat, p.lon))
                 ELSE nomiKeys
  /\ last' = [valid |-> TRUE, f |-> f, ov |-> ov, used |-> p.used,
              calls |-> p.calls, threw |-> p.threw,
              emitted |-> Running(p), lat |-> p.lat, lon |-> p.lon,
              when |-> p.when, source |-> p.source, order |-> p.order]
  /\ nomi' = Observe(nomi, p)
  /\ UNCHANGED <<variant, ENABLE_GEOCODE, DISABLE_EXIF, overrides,
                 overridesFile, atZero, hasIds,
                 run, output, env, entries, listRequests, dirsMade,
                 geocacheFile, sideVars>>

\* the loop takes the next entry of the listing and its body runs on it.
\* Each awaited call has one of its outcomes when the body gets to it, and
\* a Nominatim request that follows another comes some time d after it.
ProcessGaz ==
  /\ variant = "gaz" /\ pc = "loop" /\ Len(listed) < Len(entries)
  /\ \E f \in {entries[Len(listed) + 1]} :
          \E p1 \in {FilenameStep(f, MediaTag(MediaStep(f)))} :
          \E g \in Outcomes(Geocodes(p1), Geos, GeoNA) :
          \E p2 \in {SkipStep(NominatimStep(p1, g))} :
          \E l \in Outcomes(Running(p2), CallValues, NA) :
          \E p3 \in {LinkStep(f, p2, l, GazCaught)} :
          \E a \in Outcomes(Running(p3), CallValues, NA) :
          \E p4 \in {ThumbAStep(f, p3, a, GazCaught)} :
          \E b \in Outcomes(GazTriesB(f, p4), CallValues, NA) :
          \E p5 \in {ExternalStep(GazThumbB(f, p4, b))} :
          \E feature \in {GazFeature(f, p5)} :
          \E d \in Outcomes(Requests(p5) # {} /\ nomi.requests > 0, Elapsed, 0) :
            Apply(f, OverrideNone, Timed(p5, d), feature)

ProcessRefresh ==
  /\ variant = "refresh" /\ pc = "loop" /\ Len(listed) < Len(entries)
  /\ \E f \in {entries[Len(listed) + 1]} :
          \E p1 \in {SkipStep(FilenameStep(f, MediaTag(MediaStep(f))))} :
          \E v \in Outcomes(ReverseRequests(p1), ReverseValues, NA) :
          \E p2 \in {ReverseStep(p1, v)} :
          \E l \in Outcomes(Running(p2), CallValues, NA) :
          \E p3 \in {LinkStep(f, p2, l, RefreshCaught)} :
          \E a \in Outcomes(Running(p3), CallValues, NA) :
          \E p4 \in {ThumbAStep(f, p3, a, RefreshCaught)} :
          \E b \in Outcomes(RefreshTriesB(p4), CallValues, NA) :
          \E p5 \in {ExternalStep(RefreshThumbB(f, p4, b))} :
          \E feature \in {RefreshFeature(f, p5)} :
          \E d \in Outcomes(Requests(p5) # {} /\ nomi.requests > 0, Elapsed, 0) :
            Apply(f, OverrideNone, Timed(p5, d), feature)

ProcessExif ==
  /\ variant = "exif" /\ pc = "loop" /\ Len(listed) < Len(entries)
  /\ \E f \in {entries[Len(listed) + 1]} :
          \E ov \in {overrides[f.path]} :
          \E p1 \in {MediaStep(f)} :
          \E b \in Outcomes(ExifDownloads(p1), CallValues, NA) :
          \E p2 \in {DownloadStep(p1, b)} :
          \E x \in Outcomes(ReadsExif(p2), Exifs, ExifNA) :
          \E p3 \in {OverrideStep(ov, ExifStep(p2, x, ExifCaught))} :
          \E g \in Outcomes(Geocodes(p3), Geos, GeoNA) :
          \E p4 \in {SkipStep(GeocodeStep(p3, g, ExifCaught))} :
          \E l \in Outcomes(Running(p4), CallValues, NA) :
          \E p5 \in {LinkStep(f, p4, l, ExifCaught)} :
          \E feature \in {ExifFeature(f, p5)} :
          \E d \in Outcomes(Requests(p5) # {} /\ nomi.requests > 0, Elapsed, 0) :
            Apply(f, ov, Timed(p5, d), feature)

ProcessJimp ==
  /\ variant = "jimp" /\ pc = "loop" /\ Len(listed) < Len(entries)
  /\ \E f \in {entries[Len(listed) + 1]} :
          \E ov \in {overrides[f.path]} :
          \E l \in CallValues :
          \E p1 \in {LinkStep(f, MediaStep(f), l, JimpCaught)} :
          \E b \in Outcomes(Running(p1), CallValues, NA) :
          \E p2 \in {FetchBytesStep(p1, b)} :
          \E x \in Outcomes(ReadsExif(p2), Exifs, ExifNA) :
          \E p3 \in {OverrideStep(ov, ExifStep(p2, x, JimpCaught))} :
          \E g \in Outcomes(Geocodes(p3), Geos, GeoNA) :
          \E p4 \in {SkipStep(GeocodeStep(p3, g, JimpCaught))} :
          \E j \in Outcomes(Running(p4), CallValues, NA) :
          \E p5 \in {JimpStep(f, p4, j)} :
          \E feature \in {JimpFeature(f, p5)} :
          \E d \in Outcomes(Requests(p5) # {} /\ nomi.requests > 0, Elapsed, 0) :
            Apply(f, ov, Timed(p5, d), feature)

\* process.env as the script may find it: DROPBOX_TOKEN set or not,
\* DROPBOX_SHARED_URL set or not, and (refresh script) the three of
\* DROPBOX_REFRESH_TOKEN, DROPBOX_APP_KEY, DROPBOX_APP_SECRET all set or not
Environments == [token : BOOLEAN, url : BOOLEAN, refresh : BOOLEAN]

\* the module-level checks left out
StartupThrows_never == FALSE

\* the module-level checks that throw before anything is awaited:
\* if (!DROPBOX_TOKEN) throw ...; if (!DROPBOX_SHARED_URL) throw ...
\* (the refresh script checks the URL only)
StartupThrows ==
  IF variant = "refresh" THEN ~env.url ELSE ~env.token \/ ~env.url

\* the unhandled exception ends the process with a non-zero code
CheckConfig ==
  /\ pc = "start"
  /\ pc' = IF StartupThrows THEN "failed"
           ELSE IF variant = "refresh" THEN "auth" ELSE "list"
  /\ UNCHANGED <<variant, ENABLE_GEOCODE, DISABLE_EXIF, overrides,
                 overridesFile, atZero, hasIds,
                 run, listed, features, skipped, thumbs, extLinks, viaMedia,
                 viaGuess, viaNom, thumbFiles, geoCache, geocacheFile,
                 nomiKeys, output, geoErrors,
                 last, env, entries, listRequests, dirsMade, nomi, sideVars>>

\* async function getAccessToken(), with outcome r of the token request:
\* the refreshed token, else DROPBOX_TOKEN, else it throws (here "throw")
getAccessToken(r) ==
  IF env.refresh THEN (IF r = "ok" THEN "token" ELSE "throw")
  ELSE IF env.token THEN "token"
  ELSE "throw"

\* try { dbx = await makeDbx(); } catch (e) { console.error(e);
\* process.exit(1); }
MakeDbx ==
  /\ pc = "auth"
  /\ \E r \in Outcomes(env.refresh, CallValues, NA) :
       pc' = IF getAccessToken(r) = "throw" THEN "failed" ELSE "list"
  /\ UNCHANGED <<variant, ENABLE_GEOCODE, DISABLE_EXIF, overrides,
                 overridesFile, atZero, hasIds,
                 run, listed, features, skipped, thumbs, extLinks, viaMedia,
                 viaGuess, viaNom, thumbFiles, geoCache, geocacheFile,
                 nomiKeys, output, geoErrors,
                 last, env, entries, listRequests, dirsMade, nomi, sideVars>>

\* what a listing request may do: answer, fail, or fail with status 401
ListValues == {"ok", "fail", "expired"}

\* the listings of exactly n entries among E, each path once
RECURSIVE ListingsOfLen(_, _)
ListingsOfLen(n, E) ==
  IF n = 0 THEN {<<>>}
  ELSE UNION {{Append(s, e) :
                 e \in {x \in E : \A i \in 1..Len(s) : s[i].path # x.path}} :
              s \in ListingsOfLen(n - 1, E)}

\* what listAll may return: up to max entries with media_info among medias
Listings(max, medias) ==
  UNION {ListingsOfLen(n, {Entry(file, m) : file \in Files, m \in medias}) :
         n \in 0..max}

\* overrides.json: the tables with an entry for "/a/img_1.jpg" at most
OverrideTables ==
  {t \in [Paths -> OverrideEntries] :
     \A p \in Paths : p # "/a/img_1.jpg" => t[p] = OverrideNone}
NoOverrides == [p \in Paths |-> OverrideNone]

\* overrides.json on disk: no such file, text JSON.parse rejects, or a table
OverrideFiles ==
  {[st |-> "missing", table |-> NoOverrides],
   [st |-> "invalid", table |-> NoOverrides]}
    \cup {[st |-> "ok", table |-> tb] : tb \in OverrideTables}
NoFile == [st |-> "missing", table |-> NoOverrides]

\* the scripts without overrides.json, and a run that ended before its load
NotLoaded == [threw |-> FALSE, table |-> NoOverrides]

\* loadOverrides without its try/catch
loadOverrides_uncaught(file) ==
  IF file.st = "ok" THEN [threw |-> FALSE, table |-> file.table]
  ELSE [threw |-> TRUE, table |-> NoOverrides]

\* async function loadOverrides(): try { return JSON.parse(await
\* fs.readFile(OVERRIDES_FILE, "utf8")) } catch (_) { return {} }
loadOverrides(file) ==
  IF file.st = "ok" THEN [threw |-> FALSE, table |-> file.table]
  ELSE [threw |-> FALSE, table |-> NoOverrides]

\* if (e?.status === 401 && REFRESH && APP_KEY && APP_SECRET): the refresh
\* script asks for a token and lists once more
Retries(l) == variant = "refresh" /\ l = "expired" /\ env.refresh

\* const entries = await listAll(...) with outcome l (and, on a retry, r of
\* the token request and l2 of the second listing), then fs.mkdir of the
\* output directories; a failure ends in the final .catch: process.exit(1)
ListAllOn(max, medias) ==
  /\ pc = "list"
  /\ \E l \in ListValues :
     \E r \in Outcomes(Retries(l), CallValues, NA) :
     \E l2 \in Outcomes(r = "ok", ListValues, NA) :
     \E es \in Outcomes(l = "ok" \/ l2 = "ok", Listings(max, medias), <<>>) :
     \E ld \in Outcomes(l = "ok" \/ l2 = "ok", {loadOverrides(overridesFile)},
                        NotLoaded) :
       /\ listRequests' = listRequests + (IF l2 = NA THEN 1 ELSE 2)
       /\ entries' = es
       /\ overrides' = ld.table
       /\ pc' = IF (l = "ok" \/ l2 = "ok") /\ ~ld.threw THEN "loop"
                ELSE "failed"
       /\ dirsMade' = ((l = "ok" \/ l2 = "ok") /\ variant # "exif")
       /\ geoCache' = IF (l = "ok" \/ l2 = "ok") /\ variant = "refresh"
                      THEN loadGeocache(geoCache, geocacheFile)
                      ELSE geoCache
  /\ UNCHANGED <<variant, ENABLE_GEOCODE, DISABLE_EXIF,
                 overridesFile, atZero, hasIds,
                 run, listed, features, skipped, thumbs, extLinks, viaMedia,
                 viaGuess, viaNom, thumbFiles, geocacheFile, nomiKeys,
                 output, geoErrors, last, env, nomi, sideVars>>

\* the listing is exhausted: the refresh script saves its geocache, then
\* the FeatureCollection is written (the exif script creates its output
\* directory only here)
FinishRun ==
  /\ pc = "loop" /\ Exhausted
  /\ geocacheFile' = IF variant = "refresh" THEN saveGeocache(geoCache)
                     ELSE geocacheFile
  /\ output' = Append(output, features)
  /\ dirsMade' = TRUE
  /\ pc' = "done"
  /\ UNCHANGED <<variant, ENABLE_GEOCODE, DISABLE_EXIF, overrides,
                 overridesFile, atZero, hasIds,
                 run, listed, features, skipped, thumbs, extLinks, viaMedia,
                 viaGuess, viaNom, thumbFiles, geoCache, nomiKeys, geoErrors,
                 last, env, entries, listRequests, nomi, sideVars>>

\* the script is started again on the same site/ directory after a run
\* that ended, written or failed: the thumbnails and geocache.json of the
\* earlier runs are there, the process's own geoCache is new
NextRun ==
  /\ pc \in {"done", "failed"} /\ run < MaxRuns
  /\ geoCache' = {}
  /\ run' = run + 1
  /\ pc' = "start"
  /\ listed' = <<>>
  /\ entries' = <<>>
  /\ listRequests' = 0
  /\ dirsMade' = FALSE
  /\ nomi' = NoRequests
  /\ features' = <<>>
  /\ skipped' = 0 /\ thumbs' = 0 /\ extLinks' = 0
  /\ viaMedia' = 0 /\ viaGuess' = 0 /\ viaNom' = 0
  /\ last' = NoLast
  /\ output' = <<>>
  /\ geoErrors' = 0
  /\ overrides' = NoOverrides
  /\ UNCHANGED <<variant, ENABLE_GEOCODE, DISABLE_EXIF, overridesFile, atZero,
                 hasIds,
                 thumbFiles, geocacheFile, nomiKeys, env, sideVars>>

\* the state a run starts in, the sources holding zero components or not
InitOn(z) ==
  /\ variant \in Variants
  /\ atZero = z
  /\ ENABLE_GEOCODE \in BOOLEAN
  /\ DISABLE_EXIF \in (IF variant \in {"exif", "jimp"} THEN BOOLEAN ELSE {FALSE})
  /\ overridesFile \in (IF variant \in {"exif", "jimp"}
                        THEN OverrideFiles ELSE {NoFile})
  /\ overrides = NoOverrides
  /\ hasIds \in (IF variant \in {"gaz", "refresh"} THEN BOOLEAN ELSE {TRUE})
  /\ env \in (IF variant = "refresh" THEN Environments
               ELSE {e \in Environments : ~e.refresh})
  /\ run = 1
  /\ pc = "start"
  /\ listed = <<>>
  /\ entries = <<>>
  /\ listRequests = 0
  /\ dirsMade = FALSE
  /\ nomi = NoRequests
  /\ features = <<>>
  /\ skipped = 0 /\ thumbs = 0 /\ extLinks = 0
  /\ viaMedia = 0 /\ viaGuess = 0 /\ viaNom = 0
  /\ thumbFiles = {}
  /\ geoCache = {}
  /\ geocacheFile = {}
  /\ nomiKeys = <<>>
  /\ output = <<>>
  /\ geoErrors = 0
  /\ last = NoLast
  /\ GuessOff /\ ContentOff /\ TreeOff

Init == InitOn(FALSE)

\* one run of the script over a listing of up to MaxEntries entries
ListAll == ListAllOn(MaxEntries, Medias)

Next ==
  \/ CheckConfig \/ MakeDbx \/ ListAll
  \/ ProcessGaz \/ ProcessRefresh \/ ProcessExif \/ ProcessJimp \/ FinishRun

Spec == Init /\ [][Next]_vars

\* up to MaxRuns runs of a thumbnail-writing script over the same site/
\* directory, each over a listing of up to RerunEntries entries that carry
\* a location
MediaFull == [loc |-> TRUE, lat |-> 11, lon |-> 12, time |-> "T1"]

ListRerun == ListAllOn(RerunEntries, {MediaFull})

InitRerun ==
  /\ Init
  /\ variant \in {"gaz", "refresh", "jimp"}
  /\ overridesFile = NoFile
  /\ ~DISABLE_EXIF
  /\ env = [token |-> TRUE, url |-> TRUE, refresh |-> FALSE]

NextRerun ==
  \/ CheckConfig \/ MakeDbx \/ ListRerun
  \/ ProcessGaz \/ ProcessRefresh \/ ProcessJimp \/ FinishRun \/ NextRun

SpecRerun == InitRerun /\ [][NextRerun]_vars

\* one run over one record whose sources hold a zero latitude or longitude
ZeroEntries == 1

ListZero == ListAllOn(ZeroEntries, Medias)

InitZero ==
  /\ InitOn(TRUE)
  /\ env = [token |-> TRUE, url |-> TRUE, refresh |-> FALSE]

NextZero ==
  \/ CheckConfig \/ MakeDbx \/ ListZero
  \/ ProcessGaz \/ ProcessRefresh \/ ProcessExif \/ ProcessJimp \/ FinishRun

SpecZero == InitZero /\ [][NextZero]_vars


-----------------------------------------------------------------------------
(* The filename guess on its own: guessFromFilename and baseNameNoExt      *)
(* applied to generated file names                                         *)

Words ==
  {<<"c", "h", "e", "i", "l", "e">>,
   <<"b", "i", "c", "a", "z", "u", "l", "u", "i">>,
   <<"b", "i", "c", "a", "z">>,
   <<"B", "i", "c", "a", "z">>,
   <<"c", "r", "i", "s">>,
   <<"b", "r", "e", "b">>,
   <<"b", "e", "t", "h", "l", "e", "n">>,
   <<"i", "m", "g">>,
   <<"S,", "a~", "p", "a^", "n", "t,", "a">>}

Separators == {" ", "_", "-", "."}

\* the stems of n words joined by one separator each
RECURSIVE Stems(_)
Stems(n) ==
  IF n = 1 THEN Words
  ELSE {s \o <<sep>> \o w : s \in Stems(n - 1), sep \in Separators, w \in Words}

\* image file names: a stem of 1..MaxWords words and the extension
NameSet == {s \o Ext_jpg : s \in UNION {Stems(n) : n \in 1..MaxWords}}

GuessIdle ==
  /\ variant = "gaz" /\ ENABLE_GEOCODE = FALSE /\ DISABLE_EXIF = FALSE
  /\ overrides = NoOverrides /\ overridesFile = NoFile /\ atZero = FALSE
  /\ hasIds = TRUE /\ run = 1 /\ pc = "off"
  /\ listed = <<>> /\ features = <<>>
  /\ skipped = 0 /\ thumbs = 0 /\ extLinks = 0
  /\ viaMedia = 0 /\ viaGuess = 0 /\ viaNom = 0
  /\ thumbFiles = {} /\ geoCache = {} /\ output = <<>> /\ geoErrors = 0
  /\ geocacheFile = {} /\ nomiKeys = <<>>
  /\ last = NoLast
  /\ env = [token |-> TRUE, url |-> TRUE, refresh |-> FALSE]
  /\ entries = <<>> /\ listRequests = 0 /\ dirsMade = FALSE
  /\ nomi = NoRequests

InitGuess ==
  /\ GuessIdle /\ ContentOff /\ TreeOff
  /\ gpc = "name"
  /\ gName \in NameSet
  /\ gGuess = <<>>
  /\ gQuery = <<>>

\* const g = guessFromFilename(f.name)
GuessStep ==
  /\ gpc = "name"
  /\ gGuess' = guessFromFilename(gName)
  /\ gpc' = "guessed"
  /\ UNCHANGED <<gName, gQuery, pipeVars, contentVars, treeVars>>

\* the forward geocoder's query for the same name: baseNameNoExt(f.name)
QueryStep ==
  /\ gpc = "guessed"
  /\ gQuery' = baseNameNoExt(gName)
  /\ gpc' = "cleaned"
  /\ UNCHANGED <<gName, gGuess, pipeVars, contentVars, treeVars>>

NextGuess == GuessStep \/ QueryStep

SpecGuess == InitGuess /\ [][NextGuess]_vars


-----------------------------------------------------------------------------
(* The content table on its own: loadOverrides of the refresh script       *)
(* (content.json, src/build.mjs 1171-1194) and the lookup made for a       *)
(* record (1617, 1647-1651)                                                *)

\* rules in content.json
MaxRules == 3

\* const esc = s => String(s||"").replace(/</g,"&lt;").replace(/>/g,"&gt;")
escChar(c) ==
  CASE c = "<" -> <<"&", "l", "t", ";">>
    [] c = ">" -> <<"&", "g", "t", ";">>
    [] OTHER -> <<c>>

RECURSIVE esc(_)
esc(s) == IF s = <<>> THEN <<>> ELSE escChar(Head(s)) \o esc(Tail(s))

Lower(s) == [i \in 1..Len(s) |-> ToLower(s[i])]

\* const baseKey = name =>
\*   (name||"").toLowerCase().replace(/\.[^.]+$/,'').trim()
baseKey(name) == Trim(StripExt(Lower(name)))

Name_Bicaz == <<"B", "i", "c", "a", "z">> \o Ext_jpg
ContentNames == {Name_Bicaz, Name_img}

\* the filename of a rule, and its pattern: a regular expression that is
\* plain text, or one that new RegExp rejects
Text_bicaz_jpg == <<"b", "i", "c", "a", "z">> \o Ext_jpg
Text_Bic == <<"B", "i", "c">>
Text_i == <<"i">>
Text_unbalanced == <<"(">>
RuleFilenames == {Text_bicaz_jpg, Name_img}
RulePatterns == {Text_Bic, Text_i, Text_unbalanced}

\* title and description of a rule; a field the rule does not have is ""
RuleData ==
  {[title |-> <<"T", "1">>, description |-> <<"D", "1">>],
   [title |-> <<"T", "2">>, description |-> <<"D", "2">>],
   [title |-> <<>>, description |-> <<"D", "3">>],
   [title |-> <<" ", "T", "<", "4">>, description |-> <<>>]}

\* an item of the array: a rule with a filename, a rule with a pattern, or
\* an item that is null or has neither (<<>> for a field it does not have)
Ignored ==
  [filename |-> <<>>, pattern |-> <<>>, title |-> <<>>, description |-> <<>>]
Rules ==
  {[filename |-> fn, pattern |-> <<>>, title |-> d.title,
    description |-> d.description] : fn \in RuleFilenames, d \in RuleData}
  \cup
  {[filename |-> <<>>, pattern |-> pt, title |-> d.title,
    description |-> d.description] : pt \in RulePatterns, d \in RuleData}
  \cup {Ignored}

RECURSIVE RuleArrays(_)
RuleArrays(n) ==
  IF n = 0 THEN {<<>>}
  ELSE RuleArrays(n - 1)
         \cup {Append(a, r) : a \in {b \in RuleArrays(n - 1) : Len(b) = n - 1},
                              r \in Rules}

\* content.json on disk: no such file, text that is not a JSON array, or an
\* array of rules
ContentFiles ==
  {[st |-> "missing", arr |-> <<>>], [st |-> "invalid", arr |-> <<>>]}
    \cup {[st |-> "ok", arr |-> a] : a \in RuleArrays(MaxRules)}

\* { title: String(it.title || ""), description: String(it.description || "") }
DataOf(it) == [title |-> it.title, description |-> it.description]

\* null, as the "||" and "?." of the lookup take it
NoData == [title |-> <<>>, description |-> <<>>]

\* Map.prototype.set, Map.prototype.get (a Map is the sequence of its
\* entries in insertion order)
MapSet(m, k, v) ==
  IF \E i \in 1..Len(m) : m[i].key = k
  THEN [i \in 1..Len(m) |->
          IF m[i].key = k THEN [key |-> k, data |-> v] ELSE m[i]]
  ELSE Append(m, [key |-> k, data |-> v])

MapGet(m, k) ==
  IF \E i \in 1..Len(m) : m[i].key = k
  THEN m[CHOOSE i \in 1..Len(m) : m[i].key = k].data
  ELSE NoData

\* { byName: new Map(), patterns: [] }
EmptyTable == [byName |-> <<>>, patterns |-> <<>>]

\* the body of "for (const it of arr)": if (!it) continue; if (it.filename)
\* byName.set(...) else if (it.pattern) patterns.push(...)
AddRule(tb, it) ==
  IF it.filename # <<>>
  THEN [tb EXCEPT !.byName = MapSet(@, baseKey(it.filename), DataOf(it))]
  ELSE IF it.pattern # <<>>
  THEN [tb EXCEPT !.patterns =
                    Append(@, [re |-> it.pattern, data |-> DataOf(it)])]
  ELSE tb

RECURSIVE AddRules(_, _)
AddRules(tb, arr) ==
  IF arr = <<>> THEN tb ELSE AddRules(AddRule(tb, Head(arr)), Tail(arr))

\* new RegExp(it.pattern, "i") throws on this array
RegExpThrows(arr) ==
  \E i \in 1..Len(arr) :
    arr[i].filename = <<>> /\ arr[i].pattern = Text_unbalanced

\* async function loadOverrides() of the refresh script: whatever is thrown
\* inside (readFile, JSON.parse, the iteration, new RegExp) ends in
\* catch { return { byName: new Map(), patterns: [] } }
loadContent(file) ==
  IF file.st # "ok" \/ RegExpThrows(file.arr) THEN EmptyTable
  ELSE AddRules(EmptyTable, file.arr)

\* p.re.test(key) for a pattern of plain text and the flag "i"
Test(re, key) == Includes(Lower(key), Lower(re))

\* overrides.patterns.find(p => p.re.test(key))?.data || null
FindPattern(patterns, key) ==
  IF \E i \in 1..Len(patterns) : Test(patterns[i].re, key)
  THEN patterns[CHOOSE i \in 1..Len(patterns) :
                  /\ Test(patterns[i].re, key)
                  /\ \A j \in 1..(i - 1) : ~Test(patterns[j].re, key)].data
  ELSE NoData

\* a || b || "" on strings
OrElse(a, b) == IF a # <<>> THEN a ELSE b

\* the lookup taking both fields from the filename rule when there is one
Lookup_wholeRule(tb, key) ==
  IF \E i \in 1..Len(tb.byName) : tb.byName[i].key = key
  THEN [cuprins_title |-> esc(Trim(MapGet(tb.byName, key).title)),
        cuprins_desc |-> esc(Trim(MapGet(tb.byName, key).description))]
  ELSE [cuprins_title |-> esc(Trim(FindPattern(tb.patterns, key).title)),
        cuprins_desc |-> esc(Trim(FindPattern(tb.patterns, key).description))]

\* const ovFromName = overrides.byName.get(key) || null;
\* const ovFromPattern = overrides.patterns.find(...)?.data || null;
\* cuprinsTitle = (ovFromName?.title || ovFromPattern?.title || "").trim(),
\* cuprinsDesc likewise; pushed as cuprins_title: esc(cuprinsTitle),
\* cuprins_desc: esc(cuprinsDesc)
Lookup(tb, key) ==
  [cuprins_title |->
     esc(Trim(OrElse(MapGet(tb.byName, key).title,
                     FindPattern(tb.patterns, key).title))),
   cuprins_desc |->
     esc(Trim(OrElse(MapGet(tb.byName, key).description,
                     FindPattern(tb.patterns, key).description)))]

InitContent ==
  /\ GuessIdle /\ GuessOff /\ TreeOff
  /\ cpc = "file"
  /\ contentFile \in ContentFiles
  /\ cName \in ContentNames
  /\ cTable = <<>>
  /\ cOut = <<>>

\* const overrides = await loadOverrides()
LoadContent ==
  /\ cpc = "file"
  /\ cTable' = loadContent(contentFile)
  /\ cpc' = "loaded"
  /\ UNCHANGED <<contentFile, cName, cOut, pipeVars, guessVars, treeVars>>

\* the content lookup of one pass of the loop, for the record named cName
LookupContent ==
  /\ cpc = "loaded"
  /\ cOut' = Lookup(cTable, baseKey(cName))
  /\ cpc' = "pushed"
  /\ UNCHANGED <<contentFile, cName, cTable, pipeVars, guessVars, treeVars>>

NextContent == LoadContent \/ LookupContent

SpecContent == InitContent /\ [][NextContent]_vars


-----------------------------------------------------------------------------
(* Folder enumeration on its own: listAll (src/build.mjs 47-70, 502-525,   *)
(* 1196-1218) and listSharedTree (927-964, src/unnamed/part_000 84-122)    *)
(* over a shared folder served in pages                                    *)

\* const IMAGE_EXTS = [".jpg",".jpeg",".png",".webp",".tif",".tiff",".heic",".heif"]
IMAGE_EXTS ==
  {<<".", "j", "p", "g">>, <<".", "j", "p", "e", "g">>, <<".", "p", "n", "g">>,
   <<".", "w", "e", "b", "p">>, <<".", "t", "i", "f">>,
   <<".", "t", "i", "f", "f">>, <<".", "h", "e", "i", "c">>,
   <<".", "h", "e", "i", "f">>}

\* String.prototype.endsWith
EndsWith(s, x) ==
  Len(x) <= Len(s) /\ SubSeq(s, Len(s) - Len(x) + 1, Len(s)) = x

\* const isImage = n => IMAGE_EXTS.some(ext => (n||"").toLowerCase().endsWith(ext))
isImage(n) == \E ext \in IMAGE_EXTS : EndsWith(Lower(n), ext)

\* the entries the shared folder may hold, in the order the service lists
\* them: two folders (one named like an image), images with extensions in
\* lower and upper case, and a text file; parent is the folder holding the
\* entry, "" the root
Nodes ==
  << [tag |-> "folder", name |-> <<"a">>, path |-> "/a", parent |-> ""],
     [tag |-> "file", name |-> <<"x", ".", "j", "p", "g">>,
      path |-> "/x.jpg", parent |-> ""],
     [tag |-> "file", name |-> <<"n", ".", "t", "x", "t">>,
      path |-> "/n.txt", parent |-> ""],
     [tag |-> "file", name |-> <<"y", ".", "J", "P", "G">>,
      path |-> "/a/y.jpg", parent |-> "/a"],
     [tag |-> "folder", name |-> <<"b", ".", "j", "p", "g">>,
      path |-> "/a/b.jpg", parent |-> "/a"],
     [tag |-> "file", name |-> <<"m", ".", "j", "p", "e", "g">>,
      path |-> "/a/m.jpeg", parent |-> "/a"],
     [tag |-> "file", name |-> <<"z", ".", "p", "n", "g">>,
      path |-> "/a/b.jpg/z.png", parent |-> "/a/b.jpg"] >>

\* entries per page of a listing
PageSizes == {1, 2}

\* the shared folders: the entries present (each inside a folder that is
\* present), the page size, and whether the service ends a folder with an
\* empty page
Trees ==
  {[present |-> S, pageSize |-> n, emptyTail |-> b] :
     S \in {T \in SUBSET (1..Len(Nodes)) :
              \A i \in T : Nodes[i].parent = ""
                           \/ \E j \in T : Nodes[j].path = Nodes[i].parent},
     n \in PageSizes, b \in BOOLEAN}

\* the entries of a folder, in listing order
Children(t, folder) ==
  SelectSeq([i \in 1..Len(Nodes) |-> [Nodes[i] EXCEPT !.tag =
               IF i \in t.present THEN @ ELSE "absent"]],
            LAMBDA e : e.tag # "absent" /\ e.parent = folder)

\* the pages before a folder's listing ends: those holding its entries, one
\* empty page for an empty folder, one more when the service adds an empty
\* tail
PagesOf(t, folder) ==
  LET n == Len(Children(t, folder))
      full == (n + t.pageSize - 1) \div t.pageSize
  IN IF n = 0 THEN 1 ELSE IF t.emptyTail THEN full + 1 ELSE full

\* data.entries of page k of a folder
PageEntries(t, folder, k) ==
  LET c == Children(t, folder)
      lo == (k - 1) * t.pageSize + 1
      hi == IF k * t.pageSize < Len(c) THEN k * t.pageSize ELSE Len(c)
  IN SubSeq(c, lo, hi)

\* the enumeration reading the first page of each folder only
has_more_never(t, folder, k) == FALSE

\* data.has_more of page k of a folder
has_more(t, folder, k) == k < PagesOf(t, folder)

\* for (const e of data.entries): if (e[".tag"]==="folder")
\* queue.push(e.path_lower)
FoldersIn(es) ==
  LET fs == SelectSeq(es, LAMBDA e : e.tag = "folder")
  IN [i \in 1..Len(fs) |-> fs[i].path]

\* else if (e[".tag"]==="file" && isImage(e.name)) files.push(e)
ImagesIn(es) == SelectSeq(es, LAMBDA e : e.tag = "file" /\ isImage(e.name))

InitTree ==
  /\ GuessIdle /\ GuessOff /\ ContentOff
  /\ tpc = "list"
  /\ tree \in Trees
  /\ queue = <<"">>
  /\ files = <<>>
  /\ data = <<>>
  /\ treeRequests = 0

\* the page of a folder is scanned: folders queued, images collected
Scan(folder, k) ==
  /\ queue' = (IF k = 1 THEN Tail(queue) ELSE queue)
                \o FoldersIn(PageEntries(tree, folder, k))
  /\ files' = files \o ImagesIn(PageEntries(tree, folder, k))
  /\ data' = [folder |-> folder, page |-> k]
  /\ tpc' = IF has_more(tree, folder, k) THEN "more" ELSE "list"
  /\ treeRequests' = treeRequests + 1
  /\ UNCHANGED <<tree, pipeVars, guessVars, contentVars>>

\* while(queue.length){ const folder = queue.shift(); let res = await
\* dbx.filesListFolder({ path: folder, ... }); for(const e of data.entries) ...
ListFolder ==
  /\ tpc = "list" /\ queue # <<>>
  /\ Scan(Head(queue), 1)

\* while(data.has_more){ const more = await dbx.filesListFolderContinue({
\* cursor: data.cursor }); data = more.result; for(const e of data.entries) ...
ListContinue ==
  /\ tpc = "more"
  /\ Scan(data.folder, data.page + 1)

\* return files
ReturnFiles ==
  /\ tpc = "list" /\ queue = <<>>
  /\ tpc' = "returned"
  /\ UNCHANGED <<tree, queue, files, data, treeRequests, pipeVars, guessVars,
                 contentVars>>

NextTree == ListFolder \/ ListContinue \/ ReturnFiles

\* every request of the enumeration is answered
SpecTree == InitTree /\ [][NextTree]_vars /\ WF_vars(NextTree)


-----------------------------------------------------------------------------
(* Properties of the filename lookup, checked under SpecGuess *)

Key_cheile_bicazului ==
  <<"c", "h", "e", "i", "l", "e", " ", "b", "i", "c", "a", "z", "u", "l", "u", "i">>
Key_bicaz == <<"b", "i", "c", "a", "z">>
Point_cheile_bicazului == <<258241, 468121>>
Point_bicaz == <<260901, 469133>>

\* the keys of GAZ that occur in the text t
KeysIn(t) == {i \in DOMAIN GAZ : Includes(t, GAZ[i].key)}

\* [lon, lat] of the longest key occurring in t, the first in GAZ among the
\* longest, and <<>> when none occurs
LongestKeyPoint(t) ==
  IF KeysIn(t) = {} THEN <<>>
  ELSE LET i == CHOOSE i \in KeysIn(t) :
                  \A j \in KeysIn(t) :
                    \/ Len(GAZ[j].key) < Len(GAZ[i].key)
                    \/ Len(GAZ[j].key) = Len(GAZ[i].key) /\ i <= j
       IN <<GAZ[i].lon, GAZ[i].lat>>

\* C1: for every file name, guessFromFilename returns the coordinate of a
\* gazetteer key that occurs in the normalised name and is at least as long
\* as every other key occurring in it, and null when no key occurs in it.
C1_LongestKeyWins ==
  gpc # "name" =>
    LET M == KeysIn(norm(gName))
    IN IF M = {} THEN gGuess = <<>>
       ELSE \E i \in M :
              /\ \A j \in M : Len(GAZ[j].key) <= Len(GAZ[i].key)
              /\ gGuess = <<GAZ[i].lon, GAZ[i].lat>>

\* a name holding both "bicaz" and "cheile bicazului" got the latter's pair
C1_Witness ==
  /\ gpc = "guessed"
  /\ Includes(norm(gName), Key_bicaz)
  /\ Includes(norm(gName), Key_cheile_bicazului)
  /\ gGuess = Point_cheile_bicazului

-----------------------------------------------------------------------------
(* Properties of one run, checked under Spec.  last describes the record   *)
(* the loop processed last: its entry f, the outcomes of the calls made    *)
(* for it (used), the calls made (calls), and whether it was emitted.      *)

LastFeature == features[Len(features)]

\* the listing's media_info carries both coordinates of the entry
MediaValid(f) == f.media.loc /\ f.media.lat # NULL /\ f.media.lon # NULL

\* the EXIF tags read for the record carry both GPS coordinates
ExifValid(l) ==
  l.used.exif.st = "ok" /\ l.used.exif.lat # NULL /\ l.used.exif.lon # NULL

\* overrides.json has an entry with numeric lat and lon for the path
OverrideNumeric(p) ==
  overrides[p].has /\ IsNumber(overrides[p].lat) /\ IsNumber(overrides[p].lon)

\* C2: a record with embedded coordinates whose display path has an override
\* entry with numeric lat and lon is emitted with the override's coordinates,
\* not the embedded ones.
C2_OverrideWins ==
  (last.valid /\ last.emitted /\ OverrideNumeric(last.f.path)) =>
    LastFeature.geometry =
      <<overrides[last.f.path].lon, overrides[last.f.path].lat>>

\* a record whose media_info has coordinates 11/12 and whose override has
\* 21/22 was emitted at the override's position
C2_Witness ==
  /\ last.valid /\ last.emitted
  /\ MediaValid(last.f) /\ OverrideNumeric(last.f.path)
  /\ LastFeature.of = last.f.path
  /\ LastFeature.geometry = <<22, 21>>

\* the precondition of C3: valid embedded coordinates and no override entry
EmbeddedNoOverride(l) == MediaValid(l.f) /\ ~overrides[l.f.path].has

NoSource(l) ==
  /\ ~l.f.media.loc
  /\ ~ExifValid(l)
  /\ ~overrides[l.f.path].has
  /\ KeysIn(norm(l.f.name)) = {}
  /\ ~ENABLE_GEOCODE

\* C4: a record with no embedded location, no override entry and a file name
\* matching no gazetteer key, processed with geocoding disabled, is not in the
\* feature list and adds exactly one to the skipped counter.
C4_UnresolvedSkipped ==
  [][(last'.valid /\ Len(listed') = Len(listed) + 1 /\ NoSource(last')) =>
       /\ features' = features
       /\ \A i \in DOMAIN features' : features'[i].of # last'.f.path
       /\ skipped' = skipped + 1]_vars

\* such a record has been processed by the gazetteer script and counted as
\* skipped, the feature list left empty
C4_Witness ==
  /\ last.valid /\ NoSource(last) /\ ~last.emitted
  /\ variant = "gaz" /\ skipped = 1 /\ features = <<>>

\* the [lon, lat] pairs of the sources the record's position may come from
SourcePoints(l) ==
  {<<l.f.media.lon, l.f.media.lat>>,
   <<l.used.exif.lon, l.used.exif.lat>>,
   <<overrides[l.f.path].lon, overrides[l.f.path].lat>>,
   <<parseFloat(l.used.geo.lon), parseFloat(l.used.geo.lat)>>}
  \cup {<<GAZ[i].lon, GAZ[i].lat>> : i \in KeysIn(norm(l.f.name))}

\* C5: for every emitted feature geometry.coordinates is [longitude, latitude]
\* of one of the record's sources (media_info, EXIF, override, gazetteer,
\* geocoder), never [latitude, longitude].
C5_LonThenLat ==
  (last.valid /\ last.emitted) => LastFeature.geometry \in SourcePoints(last)

\* a record with media_info latitude 11 and longitude 12 was emitted at
\* [12, 11]
C5_Witness ==
  /\ last.valid /\ last.emitted /\ MediaValid(last.f)
  /\ last.f.media.lat = 11 /\ last.f.media.lon = 12
  /\ LastFeature.geometry = <<12, 11>>

\* the geocoding request made for the record was rejected
GeocoderThrew(l) == l.used.geo.st = "throw" \/ l.used.reverse = "throw"

\* a request other than the geocoder's whose failure ends the record in the
\* scripts that fetch bytes: link, bytes, thumbnail encoding
FetchFailed(l) ==
  \/ l.used.bytes = "fail"
  \/ variant \in {"exif", "jimp"} /\ l.used.link = "fail"
  \/ l.used.jimp = "fail"

\* C7: once the geocoding call has thrown for a record A of the run, the loop
\* goes on (the exception does not leave it), and every later record B whose
\* own requests succeed and whose sources yield coordinates is emitted.
C7_GeocoderThrowContained ==
  [][(last'.valid /\ Len(listed') = Len(listed) + 1) =>
       /\ GeocoderThrew(last') => pc' = "loop"
       /\ ( /\ geoErrors > 0
            /\ ~GeocoderThrew(last') /\ ~FetchFailed(last')
            /\ last'.lat # NULL /\ last'.lon # NULL )
          => /\ last'.emitted
             /\ features' # features
             /\ features'[Len(features')].of = last'.f.path]_vars

\* the geocoder threw for the first record and the second was emitted
C7_Witness ==
  /\ geoErrors = 1 /\ Len(listed) = 2 /\ pc = "loop"
  /\ last.valid /\ last.emitted /\ ~GeocoderThrew(last)
  /\ LastFeature.of = last.f.path

\* another source than the one that threw has coordinates for the record
OtherSource(l) ==
  \/ MediaValid(l.f)
  \/ OverrideNumeric(l.f.path)
  \/ variant \in {"gaz", "refresh"} /\ KeysIn(norm(l.f.name)) # {}

\* an exception while fetching bytes, reading tags or calling a geocoder
SourceThrew(l) ==
  l.used.bytes = "fail" \/ l.used.exif.st = "throw" \/ GeocoderThrew(l)

\* the link and thumbnail requests of the scripts that need them succeeded
LinkAndImageOk(l) ==
  variant \in {"exif", "jimp"} => l.used.link # "fail" /\ l.used.jimp # "fail"

ThrewAbsorbed(l) ==
  l.used.exif.st = "throw" \/ (variant = "gaz" /\ l.used.geo.st = "throw")

\* exceptions the loop's catch receives: fetching the bytes, geocodeName in
\* the scripts that fetch bytes, the reverse geocoder
ThrewToLoop(l) ==
  \/ l.used.bytes = "fail"
  \/ variant \in {"exif", "jimp"} /\ l.used.geo.st = "throw"
  \/ l.used.reverse = "throw"

Resolved(l) == l.lat # NULL /\ l.lon # NULL /\ ~ThrewToLoop(l)

-----------------------------------------------------------------------------
(* Thumbnail files over repeated runs, checked under SpecRerun *)

\* the thumbnail files on disk that were written for the record at path p
ThumbFilesOf(p) == {x.file : x \in {y \in thumbFiles : y.of = p}}

\* C6: running the thumbnail step twice for the same record (same path and
\* id), with any combination of success and failure of the shared-link and
\* by-id requests in each run, writes the thumbnail under the same file name,
\* so at most one thumbnail file per record exists after any number of runs.
C6_OneThumbnailPerRecord ==
  \A p \in Paths : Cardinality(ThumbFilesOf(p)) <= 1

-----------------------------------------------------------------------------
(* The text the gazetteer is matched against, checked under SpecGuess *)

Stem_cheile == <<"c", "h", "e", "i", "l", "e">>
Stem_bicazului == <<"b", "i", "c", "a", "z", "u", "l", "u", "i">>

-----------------------------------------------------------------------------
(* C11: the order of the coordinate sources *)

\* the place of a consulted source in the fixed order: embedded metadata
\* (media_info, then EXIF), manual override, gazetteer, geocoder; 0 for a
\* call that is not a coordinate source
SourceRank(c) ==
  IF c \in {"media_info", "exif"} THEN 1
  ELSE IF c = "override" THEN 2
  ELSE IF c = "guessFromFilename" THEN 3
  ELSE IF c = "geocode" THEN 4
  ELSE 0

\* the ranks of the sources consulted for the record, as they were consulted
RECURSIVE RanksOf(_)
RanksOf(order) ==
  IF order = <<>> THEN <<>>
  ELSE IF SourceRank(Head(order)) = 0 THEN RanksOf(Tail(order))
  ELSE <<SourceRank(Head(order))>> \o RanksOf(Tail(order))

NonDecreasing(s) == \A i \in 1..Len(s) : \A j \in i..Len(s) : s[i] <= s[j]

\* the embedded and override steps left a coordinate missing
MissingAfterOverride(l) ==
  ~MediaValid(l.f) /\ ~ExifValid(l) /\ ~OverrideNumeric(l.f.path)

\* C11: the coordinate sources of a record are consulted in the order
\* embedded metadata, manual override, gazetteer, geocoder; the gazetteer
\* only if a coordinate is missing after the embedded and override steps, the
\* geocoder only if one is still missing after the gazetteer step.
C11_FixedSourceOrder ==
  last.valid =>
    /\ NonDecreasing(RanksOf(last.order))
    /\ "guessFromFilename" \in last.calls => MissingAfterOverride(last)
    /\ "geocode" \in last.calls =>
         /\ MissingAfterOverride(last)
         /\ "guessFromFilename" \in last.calls =>
              KeysIn(norm(last.f.name)) = {}

\* a record went through media_info, the gazetteer and the geocoder, in that
\* order, and got its coordinates from the geocoder
C11_Witness ==
  /\ last.valid /\ last.emitted
  /\ last.order[1] = "media_info"
  /\ last.order[2] = "guessFromFilename"
  /\ last.order[3] = "geocode"
  /\ last.used.geo.st = "ok"
  /\ LastFeature.source = "nominatim"

-----------------------------------------------------------------------------
(* C12: the forward geocoder is opt-in and a last resort *)

\* every step before the geocoder left a coordinate missing: media_info,
\* EXIF, override, and the gazetteer in the script that has one before its
\* geocoder
MissingBeforeGeocoder(l) ==
  /\ MissingAfterOverride(l)
  /\ variant = "gaz" => KeysIn(norm(l.f.name)) = {}

\* C12: the forward geocoder is called for a record only when the geocoding
\* flag is enabled and a coordinate is still missing after all earlier
\* steps; with the flag disabled no geocoder request is sent in any run.
C12_GeocoderOptInLastResort ==
  /\ (last.valid /\ "geocode" \in last.calls) =>
       ENABLE_GEOCODE /\ MissingBeforeGeocoder(last)
  /\ ~ENABLE_GEOCODE => nomi.requests = 0

\* with the flag enabled, a record without coordinates from media_info, EXIF
\* and override had the geocoder asked, and the request was sent
C12_Witness ==
  /\ last.valid /\ variant = "exif" /\ ENABLE_GEOCODE
  /\ "geocode" \in last.calls
  /\ last.used.exif.st = "ok" /\ ~ExifValid(last)
  /\ nomi.requests = 1

-----------------------------------------------------------------------------
(* C13: a geocoder answer without a result is "no match" *)

\* the forward geocoder answered with a non-success status or an empty list
NoMatchAnswer(l) == l.used.geo.st \in {"notok", "empty"}

\* latitude and longitude as the steps before the geocoder left them (these
\* are media_info's, since neither EXIF nor an override supplied a pair)
LatBeforeGeocoder(l) == IF l.f.media.loc THEN l.f.media.lat ELSE NULL
LonBeforeGeocoder(l) == IF l.f.media.loc THEN l.f.media.lon ELSE NULL

\* C13: when the forward geocoder answers with a non-success status or an
\* empty result list, latitude and longitude stay as they were and no error
\* is raised; the record is skipped as unresolved, as it would have been
\* without the geocoder: one more skip, no feature, the run goes on.
C13_NoMatchIsNotAnError ==
  [][(last'.valid /\ Len(listed') = Len(listed) + 1 /\ NoMatchAnswer(last')) =>
       /\ last'.lat = LatBeforeGeocoder(last')
       /\ last'.lon = LonBeforeGeocoder(last')
       /\ last'.threw = NONE
       /\ ~last'.emitted
       /\ features' = features
       /\ skipped' = skipped + 1
       /\ geoErrors' = geoErrors
       /\ pc' = "loop"]_vars

\* the geocoder answered a record of the exif script with an empty list, and
\* the record was skipped with its latitude from media_info kept
C13_Witness ==
  /\ last.valid /\ variant = "exif"
  /\ last.used.geo.st = "empty"
  /\ last.f.media.loc /\ last.lat = 11 /\ last.lon = NULL
  /\ ~last.emitted /\ skipped = 1

-----------------------------------------------------------------------------
(* C14: the pace of the Nominatim requests *)

\* C14: between any two consecutive requests to the geocoding service in one
\* run at least the configured minimum delay (NOMI_THROTTLE ms) elapses, for
\* forward (search) requests as well as for reverse requests.
C14_MinimumDelayBetweenRequests == \A g \in nomi.gaps : g >= NOMI_THROTTLE

-----------------------------------------------------------------------------
(* C15: missing configuration *)

\* a required configuration value is missing: the shared-folder URL, or
\* every storage credential the script can use (DROPBOX_TOKEN; in the
\* refresh script also the refresh token with the app key and secret)
ConfigMissing ==
  \/ ~env.url
  \/ ~env.token /\ ~(variant = "refresh" /\ env.refresh)

\* C15: when a required configuration value is missing, the run goes from its
\* start to a non-zero exit only: no folder-listing request is made, and no
\* output file or directory is written.
C15_MissingConfigAbortsFirst ==
  ConfigMissing =>
    /\ pc \in {"start", "auth", "failed"}
    /\ listRequests = 0
    /\ ~dirsMade
    /\ output = <<>>
    /\ thumbFiles = {}

\* the refresh script, started with the URL but without any credential, has
\* exited from makeDbx
C15_Witness ==
  /\ variant = "refresh" /\ env.url /\ ~env.token /\ ~env.refresh
  /\ pc = "failed" /\ listRequests = 0

-----------------------------------------------------------------------------
(* C16: what ends a run without output *)

\* C16 as stated: once the startup configuration is present, no failure of an
\* external service call makes the run exit without writing the GeoJSON
\* output; the only fatal condition is missing configuration.
C16_OnlyMissingConfigFatal == pc = "failed" => ConfigMissing

\* C16 amended: once the startup configuration is present, the run exits
\* without writing the GeoJSON output only when the token request or the
\* folder listing fails, before the first record is taken and before any
\* output directory is made; no failure of an external service call made for
\* a record does.
C16_FatalOnlyBeforeTheLoop ==
  (pc = "failed" /\ ~ConfigMissing) =>
    /\ listed = <<>>
    /\ entries = <<>>
    /\ ~dirsMade
    /\ variant # "refresh" => listRequests > 0

\* with the configuration present, a run whose last record ended on a failed
\* download has written its output
C16_Witness ==
  /\ ~ConfigMissing /\ pc = "done" /\ Len(output) = 1
  /\ last.valid /\ last.threw = "bytes"

-----------------------------------------------------------------------------
(* C17: the GeoJSON file is written once, at the end *)

\* the listed records that were emitted or skipped so far
Settled == Len(features) + skipped

\* C17: the GeoJSON file is written exactly once per run, only after every
\* listed record has been either emitted or skipped; a run stopped at any
\* earlier point has written no output file.
C17_OutputWrittenOnceAtTheEnd ==
  /\ pc = "done" => Len(output) = 1
  /\ pc # "done" => output = <<>>
  /\ output # <<>> =>
       /\ Len(listed) = Len(entries)
       /\ Settled = Len(entries)
       /\ output[1] = features

\* a run over two records, one of them skipped, has written its file
C17_Witness ==
  /\ pc = "done" /\ Len(output) = 1
  /\ Len(entries) = MaxEntries /\ skipped = 1 /\ Len(output[1]) = MaxEntries - 1

-----------------------------------------------------------------------------
(* C18: every listed record is emitted or skipped, once *)

\* one pass of the loop emits one feature or counts one skip, never both
SettlesOne ==
  Len(listed') = Len(listed) + 1 =>
    \/ Len(features') = Len(features) + 1 /\ skipped' = skipped
    \/ features' = features /\ skipped' = skipped + 1

\* C18: at the end of every run each listed record has been either emitted as
\* exactly one feature or counted as skipped exactly once, never both:
\* number of features + skipped = number of listed records.
C18_EmittedOrSkippedOnce ==
  /\ [](Settled = Len(listed))
  /\ [](pc = "done" => Settled = Len(entries))
  /\ [][SettlesOne]_vars

\* a finished run over two records: one emitted, one skipped by the catch
C18_Witness ==
  /\ pc = "done" /\ Len(entries) = MaxEntries
  /\ Len(features) = 1 /\ skipped = 1
  /\ last.valid /\ last.threw # NONE

-----------------------------------------------------------------------------
(* C19: the features keep the order of the listing *)

\* the paths of the records behind a sequence of features, and of a listing
RecordsOf(fs) == [i \in 1..Len(fs) |-> fs[i].of]
PathsOf(es) == [i \in 1..Len(es) |-> es[i].path]

\* s is t with some elements left out
RECURSIVE IsSubsequence(_, _)
IsSubsequence(s, t) ==
  IF s = <<>> THEN TRUE
  ELSE IF t = <<>> THEN FALSE
  ELSE IF Head(s) = Head(t) THEN IsSubsequence(Tail(s), Tail(t))
  ELSE IsSubsequence(s, Tail(t))

\* C19: the features of the output FeatureCollection appear in the same
\* relative order as their records in the input listing: the output is a
\* subsequence of the listing order.
C19_OutputInListingOrder ==
  /\ IsSubsequence(RecordsOf(features), listed)
  /\ output # <<>> => IsSubsequence(RecordsOf(output[1]), PathsOf(entries))

\* the output of a run over two records holds both, the first listed first
C19_Witness ==
  /\ pc = "done" /\ Len(output) = 1 /\ Len(entries) = MaxEntries
  /\ Len(output[1]) = MaxEntries
  /\ output[1][1].of = entries[1].path /\ output[1][2].of = entries[2].path

-----------------------------------------------------------------------------
(* C20: the source tag of a feature *)

\* the tags the statement lists
StatedTags == {"exif", "media_info", "override", "filename", "geocode"}

\* the scripts whose features have a source property, and its values there
Tagging == variant \in {"gaz", "refresh"}
WrittenTags == {"media_info", "filename", "nominatim"}

HasTag(ft) == "source" \in DOMAIN ft /\ ft.source # NONE

\* the source the coordinates of the record came from, and the point it gave,
\* g being the gazetteer's answer for the record's name
Supplier(l, g) ==
  IF MediaValid(l.f) THEN "media_info"
  ELSE IF g # <<>> THEN "filename"
  ELSE "nominatim"

SupplierPoint(l, g) ==
  IF MediaValid(l.f) THEN pointOf(l.f.media.lon, l.f.media.lat)
  ELSE IF g # <<>> THEN pointOf(g[1], g[2])
  ELSE pointOf(parseFloat(l.used.geo.lon), parseFloat(l.used.geo.lat))

\* C20 as stated: every emitted feature carries a source tag that is one of
\* "exif", "media_info", "override", "filename", "geocode".
C20_EveryFeatureTagged ==
  \A i \in 1..Len(features) :
    HasTag(features[i]) /\ features[i].source \in StatedTags

\* C20 amended: every feature emitted by the gazetteer and refresh-token
\* scripts carries a source tag that is one of "media_info", "filename",
\* "nominatim" and that names the source which supplied the feature's
\* coordinates; the features of the EXIF/override scripts carry no source tag.
C20_TagNamesTheSupplier ==
  /\ \A i \in 1..Len(features) :
       IF Tagging
       THEN HasTag(features[i]) /\ features[i].source \in WrittenTags
       ELSE "source" \notin DOMAIN features[i]
  /\ (Tagging /\ last.valid /\ last.emitted) =>
       \A g \in {guessFromFilename(last.f.name)} :
         /\ LastFeature.source = Supplier(last, g)
         /\ LastFeature.geometry = SupplierPoint(last, g)
         /\ variant = "refresh" => LastFeature.source # "nominatim"

\* media_info gave a latitude only, the gazetteer gave the pair: the feature
\* is tagged "filename"
C20_Witness ==
  /\ Tagging /\ last.valid /\ last.emitted
  /\ last.f.media.loc /\ last.f.media.lat # NULL /\ last.f.media.lon = NULL
  /\ LastFeature.source = "filename"

-----------------------------------------------------------------------------
(* C21: an override leaves the capture time alone *)

\* the capture time the embedded metadata gave: media_info's time_taken when
\* the entry has a location, else the time of the EXIF tags that were taken
EmbeddedWhen(l) ==
  IF l.f.media.loc /\ l.f.media.time # NONE THEN l.f.media.time
  ELSE IF l.used.exif.st = "ok" /\ Truthy(l.used.exif.lat)
          /\ Truthy(l.used.exif.lon)
  THEN l.used.exif.when
  ELSE NONE

\* C21: when an override replaces a record's coordinates, the capture time
\* obtained from embedded metadata (listing media_info or EXIF) is unchanged
\* and is what the emitted feature reports as taken_at.
C21_OverrideKeepsCaptureTime ==
  (last.valid /\ last.emitted /\ OverrideNumeric(last.f.path)) =>
    /\ LastFeature.taken_at = EmbeddedWhen(last)
    /\ last.when = EmbeddedWhen(last)

\* a record with EXIF coordinates and time, and an override: the feature has
\* the override's point and the EXIF time
C21_Witness ==
  /\ last.valid /\ last.emitted /\ OverrideNumeric(last.f.path)
  /\ ExifValid(last) /\ last.used.exif.when = "T2"
  /\ LastFeature.taken_at = "T2"
  /\ LastFeature.geometry =
       pointOf(overrides[last.f.path].lon, overrides[last.f.path].lat)

-----------------------------------------------------------------------------
(* C22: a missing override file *)

\* the coordinates media_info, EXIF and the geocoder leave for the record,
\* no override applied
UnoverriddenPoint(l) ==
  IF MediaValid(l.f) THEN pointOf(l.f.media.lon, l.f.media.lat)
  ELSE IF ExifValid(l) /\ Truthy(l.used.exif.lat) /\ Truthy(l.used.exif.lon)
  THEN pointOf(l.used.exif.lon, l.used.exif.lat)
  ELSE pointOf(parseFloat(l.used.geo.lon), parseFloat(l.used.geo.lat))

\* C22: when the override file is missing the run does not fail: the table
\* is empty, and every record is resolved exactly as with an empty override
\* table.
C22_MissingOverridesIsEmptyTable ==
  (variant \in {"exif", "jimp"} /\ overridesFile.st = "missing") =>
    /\ overrides = NoOverrides
    /\ (pc = "failed" /\ ~ConfigMissing) => entries = <<>> /\ listed = <<>>
    /\ last.valid => last.ov = OverrideNone
    /\ (last.valid /\ last.emitted) =>
         LastFeature.geometry = UnoverriddenPoint(last)

\* without overrides.json a run has finished and emitted a record with its
\* embedded position
C22_Witness ==
  /\ variant \in {"exif", "jimp"} /\ overridesFile.st = "missing"
  /\ pc = "done" /\ Len(output) = 1
  /\ last.valid /\ last.emitted /\ last.f.path = "/a/img_1.jpg"
  /\ MediaValid(last.f)

-----------------------------------------------------------------------------
(* C23, C24: which rule of the content table is applied (SpecContent) *)

\* the record's key, and whether the loaded table has a filename rule and a
\* pattern rule for it
cKey == baseKey(cName)
NameMatches == \E i \in 1..Len(cTable.byName) : cTable.byName[i].key = cKey
PatternMatches ==
  \E i \in 1..Len(cTable.patterns) : Test(cTable.patterns[i].re, cKey)

\* the data of the filename rule, and of the first matching pattern rule
ExactData == MapGet(cTable.byName, cKey)
PatternData == FindPattern(cTable.patterns, cKey)

\* C23 as stated: when a record's key matches both an exact-filename rule and
\* a pattern rule of the content table, the emitted title and the emitted
\* description are both taken from the exact-filename rule.
C23_BothFromExactRule ==
  (cpc = "pushed" /\ NameMatches /\ PatternMatches) =>
    /\ cOut.cuprins_title = esc(Trim(ExactData.title))
    /\ cOut.cuprins_desc = esc(Trim(ExactData.description))

\* C23 amended: when a record's key matches both an exact-filename rule and a
\* pattern rule of the content table, the emitted title and the emitted
\* description are each taken from the exact-filename rule when that rule has
\* a non-empty value for the field, and from the pattern rule otherwise.
C23_ExactRuleFirstPerField ==
  (cpc = "pushed" /\ NameMatches /\ PatternMatches) =>
    /\ cOut.cuprins_title =
         IF ExactData.title # <<>> THEN esc(Trim(ExactData.title))
         ELSE esc(Trim(PatternData.title))
    /\ cOut.cuprins_desc =
         IF ExactData.description # <<>> THEN esc(Trim(ExactData.description))
         ELSE esc(Trim(PatternData.description))

\* "Bicaz.jpg" with the rule of "bicaz.jpg", which has a description only,
\* and a rule of the pattern "Bic" with both: title of the pattern rule,
\* description of the filename rule
C23_Witness ==
  /\ cpc = "pushed" /\ cName = Name_Bicaz
  /\ NameMatches /\ PatternMatches
  /\ ExactData = [title |-> <<>>, description |-> <<"D", "3">>]
  /\ PatternData = [title |-> <<"T", "1">>, description |-> <<"D", "1">>]
  /\ cOut = [cuprins_title |-> <<"T", "1">>, cuprins_desc |-> <<"D", "3">>]

\* the rules of the array that match the record: by filename, by pattern
NameRules ==
  {i \in 1..Len(contentFile.arr) :
     /\ contentFile.arr[i].filename # <<>>
     /\ baseKey(contentFile.arr[i].filename) = cKey}
PatternRules ==
  {i \in 1..Len(contentFile.arr) :
     /\ contentFile.arr[i].filename = <<>>
     /\ contentFile.arr[i].pattern # <<>>
     /\ Test(contentFile.arr[i].pattern, cKey)}
First(S) == CHOOSE i \in S : \A j \in S : i <= j

\* C24: when several rules of the content table match the same record
\* (several patterns, or several entries with the same filename), the rule
\* that comes first in the array is the one applied.  Stated for the arrays
\* whose patterns all compile.
C24_FirstRuleOfTheArrayApplied ==
  (cpc \in {"loaded", "pushed"} /\ contentFile.st = "ok"
     /\ ~RegExpThrows(contentFile.arr)) =>
    /\ NameRules # {} => ExactData = DataOf(contentFile.arr[First(NameRules)])
    /\ PatternRules # {} =>
         PatternData = DataOf(contentFile.arr[First(PatternRules)])

-----------------------------------------------------------------------------
(* C25: the folder enumeration (SpecTree) *)

\* the paths of the image files the shared folder holds
ImagePaths == {"/x.jpg", "/a/y.jpg", "/a/m.jpeg", "/a/b.jpg/z.png"}
PresentImages ==
  {Nodes[i].path : i \in {j \in tree.present : Nodes[j].path \in ImagePaths}}

\* the pages of all folders present
TotalPages ==
  PagesOf(tree, "")
    + (IF 1 \in tree.present THEN PagesOf(tree, "/a") ELSE 0)
    + (IF 5 \in tree.present THEN PagesOf(tree, "/a/b.jpg") ELSE 0)

\* C25: the enumeration terminates on every finite folder tree with finitely
\* many pages per folder, and returns exactly the file entries with an image
\* extension from every page of every folder reachable from the root, each
\* once; folders and non-image files are never returned.
C25_EnumerationCompleteAndTerminates ==
  /\ [](\A i \in 1..Len(files) :
          files[i].tag = "file" /\ files[i].path \in PresentImages)
  /\ [](\A i, j \in 1..Len(files) : files[i].path = files[j].path => i = j)
  /\ [](tpc = "returned" =>
          /\ {files[i].path : i \in 1..Len(files)} = PresentImages
          /\ treeRequests = TotalPages)
  /\ <>(tpc = "returned")

\* the whole tree, one entry per page and an empty last page in each
\* folder: the four images have been returned after ten requests
C25_Witness ==
  /\ tpc = "returned"
  /\ tree.present = 1..Len(Nodes) /\ tree.pageSize = 1 /\ tree.emptyTail
  /\ Len(files) = 4 /\ treeRequests = 10

-----------------------------------------------------------------------------
(* C26: a zero latitude or longitude (SpecZero) *)

\* the record did not end as unresolved: it was emitted, or a request of a
\* later step threw
NotUnresolved(l) == l.emitted \/ l.threw # NONE

\* the geocoder answered with a result whose fields are numbers
GeoValid(l) ==
  /\ l.used.geo.st = "ok"
  /\ parseFloat(l.used.geo.lat) # NaN /\ parseFloat(l.used.geo.lon) # NaN

\* C26: a source that yields a latitude or longitude equal to 0 counts as
\* having yielded that component: for every source (listing media_info, EXIF,
\* override, geocoder) a record on the equator or the prime meridian is
\* resolved by that source and no later fallback is attempted.
C26_ZeroIsACoordinate ==
  last.valid =>
    /\ MediaValid(last.f) =>
         /\ last.calls \cap {"exif", "guessFromFilename", "geocode"} = {}
         /\ NotUnresolved(last)
         /\ (last.emitted /\ ~OverrideNumeric(last.f.path)) =>
              LastFeature.geometry =
                pointOf(last.f.media.lon, last.f.media.lat)
    /\ ExifValid(last) =>
         /\ "geocode" \notin last.calls
         /\ NotUnresolved(last)
         /\ (last.emitted /\ ~OverrideNumeric(last.f.path)) =>
              LastFeature.geometry =
                pointOf(last.used.exif.lon, last.used.exif.lat)
    /\ (OverrideNumeric(last.f.path) /\ last.threw = NONE) =>
         /\ "geocode" \notin last.calls
         /\ last.emitted
         /\ LastFeature.geometry =
              pointOf(overrides[last.f.path].lon, overrides[last.f.path].lat)
    /\ GeoValid(last) =>
         /\ NotUnresolved(last)
         /\ last.emitted =>
              LastFeature.geometry =
                pointOf(parseFloat(last.used.geo.lon),
                        parseFloat(last.used.geo.lat))

-----------------------------------------------------------------------------
(* Thumbnail files and the features that reference them *)

\* feature ft references the thumbnail file x: properties.thumb is
\* "thumbs/<name>" in the gazetteer and refresh-token scripts, properties.url
\* is "/thumbs/<name>" in the thumbnail-rendering script
RefersTo(ft, x) ==
  IF variant = "jimp" THEN ft.url = x.file
  ELSE IF variant \in {"gaz", "refresh"} THEN ft.thumb = "thumbs/" \o x.file
  ELSE FALSE

\* C27: two distinct records of one listing (different paths) are never
\* written to the same thumbnail file, so no emitted feature references a
\* thumbnail file that holds the image of another record.
C27_ThumbnailHoldsItsOwnRecord ==
  \A i \in 1..Len(features) : \A x \in thumbFiles :
    RefersTo(features[i], x) => x.of = features[i].of

-----------------------------------------------------------------------------
(* The reverse-geocode cache over the runs, checked under SpecRerun *)

\* the loop takes one more entry in this step
TakesEntry == Len(listed') = Len(listed) + 1

\* the cache key of the entry the step takes
TakenKey == cacheKey(last'.lat, last'.lon)

\* the entries of a cache or of geocache.json stored under key k
StoredUnder(c, k) == {e \in c : e.key = k}

\* C28 as stated: across any sequence of reverseGeocode calls, including
\* calls in later runs that load the saved geocache.json, at most one
\* external request is ever issued per coordinate key.
C28_OneRequestPerKeyEver ==
  \A i, j \in 1..Len(nomiKeys) : nomiKeys[i] = nomiKeys[j] => i = j

\* C28 amended: once a key is in the cache, set earlier in the run or loaded
\* from the saved geocache.json, even with a null value stored after a
\* non-success response, every later lookup returns the cached value without
\* a request; a run that reaches its end saves the whole cache and the next
\* run starts its loop with every saved entry. (A request whose fetch rejects
\* stores nothing, so the key is requested again by the next lookup.)
C28_CachedKeyNeverRequested ==
  /\ [][(TakesEntry /\ "reverseGeocode" \in last'.calls
           /\ StoredUnder(geoCache, TakenKey) # {})
        => /\ "reverse" \notin last'.calls
           /\ nomiKeys' = nomiKeys
           /\ geoCache' = geoCache
           /\ last'.emitted
           /\ \A e \in StoredUnder(geoCache, TakenKey) :
                features'[Len(features')].place = e.val]_vars
  /\ [][nomiKeys' # nomiKeys
        => /\ Len(nomiKeys') = Len(nomiKeys) + 1
           /\ StoredUnder(geoCache, nomiKeys'[Len(nomiKeys')]) = {}
           /\ StoredUnder(geocacheFile, nomiKeys'[Len(nomiKeys')]) = {}]_vars
  /\ []((variant = "refresh" /\ pc = "loop") => geocacheFile \subseteq geoCache)
  /\ []((variant = "refresh" /\ pc = "done") => geocacheFile = geoCache)

\* a second run finds the key of its record in the loaded cache with the
\* null stored by the first run's non-success response, and sends no request
C28_Witness ==
  /\ run = 2 /\ last.valid /\ last.emitted
  /\ "reverseGeocode" \in last.calls /\ "reverse" \notin last.calls
  /\ nomiKeys = <<cacheKey(last.lat, last.lon)>>
  /\ [key |-> cacheKey(last.lat, last.lon), val |-> NONE] \in geoCache

-----------------------------------------------------------------------------
(* The coordinates of the emitted features *)

\* a finite number: not null, not NaN, not a value of another type
Finite(v) == v \notin {NULL, NaN, TEXT}

\* C29: every emitted feature has two finite numeric coordinates: a geocoder
\* result whose lat or lon does not parse as a number never produces a
\* feature, and a record with only one of latitude/longitude from embedded
\* metadata is never emitted with a missing component.
C29_CoordinatesAreFinite ==
  \A i \in 1..Len(features) :
    Finite(features[i].geometry[1]) /\ Finite(features[i].geometry[2])

-----------------------------------------------------------------------------
(* The thumbnail fallback of the gazetteer and refresh-token scripts *)

\* the request was sent for the record and failed
Failed(v) == v = "fail"

\* call a comes before call b in the order the body made its calls
MadeBefore(l, a, b) ==
  \E i, j \in 1..Len(l.order) : i < j /\ l.order[i] = a /\ l.order[j] = b

\* in every feature at most one of thumb and thumb_external is non-null
OneThumbField ==
  \A i \in 1..Len(features) :
    features[i].thumb = NONE \/ features[i].thumb_external = NONE

\* the by-id request is made only after the shared-link request failed
ByIdOnlyAfterSharedLinkFailed ==
  "thumbB" \in last.calls =>
    Failed(last.used.thumbA) /\ MadeBefore(last, "thumbA", "thumbB")

\* C30 as stated: in every emitted feature at most one of thumb and
\* thumb_external is non-null; the by-id thumbnail request is made only after
\* the shared-link request failed, and thumb_external is set only after both
\* failed; thumbs + extLinks <= number of features.
C30_ExternalOnlyAfterBothFailed ==
  (variant \in {"gaz", "refresh"} /\ last.valid) =>
    /\ OneThumbField
    /\ ByIdOnlyAfterSharedLinkFailed
    /\ (last.emitted /\ LastFeature.thumb_external # NONE) =>
         Failed(last.used.thumbA) /\ Failed(last.used.thumbB)
    /\ thumbs + extLinks <= Len(features)

\* C30 amended: as stated, except that thumb_external is set only after the
\* shared-link request failed and the by-id request failed or, for a record
\* without an id in the gazetteer script, was not made.
C30_ExternalOnlyAfterNoThumbnail ==
  (variant \in {"gaz", "refresh"} /\ last.valid) =>
    /\ OneThumbField
    /\ ByIdOnlyAfterSharedLinkFailed
    /\ (last.emitted /\ LastFeature.thumb_external # NONE) =>
         /\ Failed(last.used.thumbA)
         /\ \/ Failed(last.used.thumbB)
            \/ /\ variant = "gaz" /\ last.f.id = NONE
               /\ "thumbB" \notin last.calls
         /\ LastFeature.thumb = NONE
    /\ thumbs + extLinks <= Len(features)
    /\ (pc = "done" => thumbs + extLinks <= Len(output[1]))

\* a run that wrote two features, the first with a local thumbnail from the
\* by-id request, the last with the external link after both requests failed
C30_Witness ==
  /\ variant \in {"gaz", "refresh"} /\ pc = "done" /\ Len(features) = 2
  /\ features[1].thumb # NONE /\ features[1].thumb_external = NONE
  /\ LastFeature.thumb = NONE /\ LastFeature.thumb_external # NONE
  /\ Failed(last.used.thumbA) /\ Failed(last.used.thumbB)
  /\ thumbs = 1 /\ extLinks = 1
====
